---- MODULE Spec2Model ----
(***************************************************************************)
(* Verification model of the Sui <-> EVM intent bridge:                    *)
(*   - the Dutch-auction price functions (TypeScript, Solidity, Move),      *)
(*   - the EVM vault contract IntentBridge (createOrder / settleOrder),     *)
(*   - the EVM -> Sui solver (main / processOrder / fetchVAA),              *)
(*   - the Sui -> EVM solver's event loop (main / processIntent).           *)
(* Amounts are raw token units: USDC has 6 decimals, SUI has 9.             *)
(***************************************************************************)
EXTENDS Integers, Sequences, FiniteSets, TLC

\* ------------------------------------------------------------------ bounds

MaxOrders == 1
MaxTime == 3
MaxAmount == 3
MaxDuration == 2
MaxStarts == 2      \* times the Sui -> EVM solver is started
MaxSkew == 1        \* how far the solver host's clock may be from the ledger clock
SolverFunds == 2    \* SUI the solver holds when it starts

\* ------------------------------------------------------- program constants

SUI_CHAIN_ID == 21
MIN_PROFIT_USDC_RAW == 10000      \* MIN_PROFIT_USDC = 0.01 in 6-decimal USDC units
MOCK_SUI_PRICE_USDC == 1
MOCK_ETH_PRICE_USDC == 2000
MIN_PROFIT_MIST == 10000000       \* MIN_PROFIT_USDC = 0.01 in 9-decimal SUI units at 1 USDC
GWEI == 1000000000                \* 1e-9 ETH in wei
QUERY_LIMIT == 50                 \* queryEvents: limit
BASE_SEPOLIA_CHAIN_ID == 10004
PARSE_ATTEMPTS == 5               \* fetchVAA: attempts of the parse loop

\* ------------------------------------------------------------- price model

\* BigInt division of the solver scripts: truncates toward zero.
BigIntDiv(a, b) ==
    IF a >= 0 THEN a \div b ELSE -((-a) \div b)

calculateCurrentPrice_expiredAtStart(startAmount, minAmount, startTime, duration, currentTime) ==
    IF currentTime <= startTime THEN startAmount
    ELSE IF currentTime - startTime >= duration THEN startAmount
    ELSE startAmount - BigIntDiv((startAmount - minAmount) * (currentTime - startTime), duration)

calculateCurrentPrice_noFloorClamp(startAmount, minAmount, startTime, duration, currentTime) ==
    IF currentTime <= startTime \/ duration = 0 THEN startAmount
    ELSE startAmount - BigIntDiv((startAmount - minAmount) * (currentTime - startTime), duration)

calculateCurrentPrice_roundsUp(startAmount, minAmount, startTime, duration, currentTime) ==
    IF currentTime <= startTime THEN startAmount
    ELSE IF currentTime - startTime >= duration THEN minAmount
    ELSE startAmount
         - BigIntDiv((startAmount - minAmount) * (currentTime - startTime) + duration - 1, duration)

\* utils.ts calculateCurrentPrice
calculateCurrentPrice(startAmount, minAmount, startTime, duration, currentTime) ==
    IF currentTime <= startTime THEN startAmount
    ELSE LET elapsed == currentTime - startTime IN
         IF elapsed >= duration THEN minAmount
         ELSE LET totalDrop == startAmount - minAmount
                  decay == BigIntDiv(totalDrop * elapsed, duration)
              IN  startAmount - decay

\* SolverBot.calculateDutchPrice; now is its reading of the wall clock in seconds
calculateDutchPrice(startAmount, minAmount, startTime, duration, now) ==
    IF now <= startTime THEN startAmount
    ELSE LET elapsed == now - startTime IN
         IF elapsed >= duration THEN minAmount
         ELSE LET totalDrop == startAmount - minAmount
                  decay == BigIntDiv(totalDrop * elapsed, duration)
              IN  startAmount - decay

\* Result of an on-chain computation over unsigned integers: a value, or an
\* arithmetic abort (Solidity 0.8 checked arithmetic panic, Move abort).
Val(v) == [ok |-> TRUE, val |-> v]
Abort == [ok |-> FALSE, val |-> 0]

\* IntentBridge.getRequiredAmountAt, on the auction fields of an order.
getRequiredAmountAt(order, timestamp) ==
    IF timestamp <= order.startTime THEN Val(order.startOutputAmount)
    ELSE LET elapsed == timestamp - order.startTime IN
         IF elapsed >= order.duration THEN Val(order.minOutputAmount)
         ELSE IF order.startOutputAmount < order.minOutputAmount THEN Abort
         ELSE LET totalDrop == order.startOutputAmount - order.minOutputAmount
                  decayAmount == (totalDrop * elapsed) \div order.duration
              IN  Val(order.startOutputAmount - decayAmount)

\* intent::calculate_required_amount_internal (u64, product in u128).
calculate_required_amount_internal(start_amount, min_amount, start_time, duration, current_time_ms) ==
    IF current_time_ms <= start_time THEN Val(start_amount)
    ELSE LET elapsed == current_time_ms - start_time IN
         IF elapsed >= duration THEN Val(min_amount)
         ELSE IF start_amount < min_amount THEN Abort
         ELSE LET total_drop == start_amount - min_amount
                  drop == (total_drop * elapsed) \div duration
              IN  Val(start_amount - drop)

\* ------------------------------------------------------------------- state

VARIABLES
    time,            \* ledger time in seconds: EVM block.timestamp / block number, Sui clock
    nextOrderId,     \* IntentBridge.nextOrderId
    orders,          \* IntentBridge.orders
    processedVaas,   \* IntentBridge.processedVaas (the hashes set to true)
    usdcBal,         \* USDC balances
    lastErr,         \* outcome of the latest contract call: "ok" or the revert reason
    px,              \* inputs of the price functions, or of the contract call made last
    pxOut,           \* their results, once computed
    suiBal,          \* SUI balances
    ethBal,          \* ETH balances
    intents,         \* Sui Intent objects in creation order; the index is the intent id
    whMsgs,          \* Wormhole messages published so far; the index is the sequence
    signedVaas,      \* sequences the guardians have signed
    pc,              \* the solver process: where main / processOrder / fetchVAA stands
    starts,          \* how many times the solver process was started
    lastBlock,       \* main (EVM -> Sui): lastBlock
    currentBlock,    \* main (EVM -> Sui): currentBlock of the running iteration
    nextCursor,      \* main (Sui -> EVM): nextCursor; 0 is null
    batch,           \* main: logs of the running iteration not yet processed
    cur,             \* processOrder: the order in hand, its price, its Sui tx, parse attempts
    errLog,          \* what console.error has shown the operator
    fetchedVaas,     \* sequences whose VAA fetchVAA has returned
    settleTxs,       \* settleOrder transactions the solver has submitted
    timedOut,        \* orders whose VAA retrieval timed out
    delivered,       \* orders whose creation event was handed to processOrder / processIntent
    poll,            \* a VAA polling or parse-retry loop: script, attempts, elapsed ms, status
    host             \* a solver process: its environment, the stage of main, cursor, payments, log

ledger == <<nextOrderId, orders, processedVaas, usdcBal>>
evmVars == <<ledger, lastErr>>
priceVars == <<px, pxOut>>
suiVars == <<suiBal, ethBal, intents, whMsgs, signedVaas>>
loopVars == <<starts, lastBlock, currentBlock, nextCursor>>
solverVars == <<pc, loopVars, batch, cur, errLog, fetchedVaas, settleTxs, timedOut>>
vars == <<time, evmVars, priceVars, suiVars, solverVars, delivered, poll, host>>

\* ------------------------------------------------------- IntentBridge (EVM)

User == "user"
Vault == "vault"
Solvers == {"solver", "other"}
Accounts == {User, Vault} \cup Solvers
SuiEmitter == "solver_engine"

InputAmounts == {0, MIN_PROFIT_USDC_RAW, 2 * MIN_PROFIT_USDC_RAW}
OutputAmounts == 0..MaxAmount

\* Auctions a user opens in the ledger models: a decaying one, a
\* flat one, one with no duration, and one whose floor exceeds its start
\* (createOrder checks neither).
AuctionConfigs ==
    {<<MaxAmount, 1, MaxDuration>>, <<MaxAmount, MaxAmount, 1>>,
     <<MaxAmount, 0, 0>>, <<0, MaxAmount, MaxDuration>>}
UserFunds == 2 * MIN_PROFIT_USDC_RAW

\* mapping default: a slot never written reads as zeroes, status PENDING (enum 0)
EmptyOrder ==
    [depositor |-> "none", inputAmount |-> 0, startOutputAmount |-> 0,
     minOutputAmount |-> 0, startTime |-> 0, duration |-> 0, status |-> "PENDING"]

OrderAt(orderId) ==
    IF orderId \in DOMAIN orders THEN orders[orderId] ELSE EmptyOrder

\* a revert undoes every write of the call
Revert(reason) ==
    /\ lastErr' = reason
    /\ UNCHANGED ledger

createOrder(sender, inputAmount, startOutputAmount, minOutputAmount, duration) ==
    /\ nextOrderId < MaxOrders
    /\ IF inputAmount = 0 THEN Revert("InvalidAmount")
       ELSE IF usdcBal[sender] < inputAmount THEN Revert("TransferFailed")
       ELSE /\ usdcBal' = [usdcBal EXCEPT ![sender] = @ - inputAmount,
                                          ![Vault] = @ + inputAmount]
            /\ orders' = [orders EXCEPT ![nextOrderId] =
                            [depositor |-> sender,
                             inputAmount |-> inputAmount,
                             startOutputAmount |-> startOutputAmount,
                             minOutputAmount |-> minOutputAmount,
                             startTime |-> time,
                             duration |-> duration,
                             status |-> "PENDING"]]
            /\ nextOrderId' = nextOrderId + 1
            /\ lastErr' = "ok"
            /\ UNCHANGED processedVaas

\* IntentBridge.getCurrentRequiredAmount: the decay at block.timestamp
getCurrentRequiredAmount(orderId) ==
    LET order == OrderAt(orderId) IN
    IF time <= order.startTime THEN Val(order.startOutputAmount)
    ELSE LET elapsed == time - order.startTime IN
         IF elapsed >= order.duration THEN Val(order.minOutputAmount)
         ELSE IF order.startOutputAmount < order.minOutputAmount THEN Abort
         ELSE LET totalDrop == order.startOutputAmount - order.minOutputAmount
                  decayAmount == (totalDrop * elapsed) \div order.duration
              IN  Val(order.startOutputAmount - decayAmount)

\* A VAA as parseAndVerifyVM returns it: validity, emitter, timestamp and the
\* payload decoded as (orderId, solverAddress, amountPaidBySolver).
VaaHash(vm) ==
    <<vm.emitterChainId, vm.emitterAddress, vm.sequence, vm.timestamp,
      vm.orderId, vm.solverAddress, vm.amountPaidBySolver>>

\* Outcome of a contract call: the error ("ok" when it returns) and the
\* storage and balances it leaves. A revert leaves what the call found.
Reverted(reason) ==
    [err |-> reason, processedVaas |-> processedVaas, orders |-> orders, usdcBal |-> usdcBal]

Settled(vm, payout) ==
    [err |-> "ok",
     processedVaas |-> processedVaas \cup {VaaHash(vm)},
     orders |-> [orders EXCEPT ![vm.orderId].status = "SETTLED"],
     usdcBal |-> [usdcBal EXCEPT ![Vault] = @ - payout, ![vm.solverAddress] = @ + payout]]

settleOrder_noBidCheck(vm) ==
    IF ~vm.valid THEN Reverted("InvalidVAA")
    ELSE IF VaaHash(vm) \in processedVaas THEN Reverted("VAAAlreadyProcessed")
    ELSE IF vm.emitterChainId # SUI_CHAIN_ID THEN Reverted("InvalidEmitterChain")
    ELSE IF vm.emitterAddress # SuiEmitter THEN Reverted("InvalidEmitterAddress")
    ELSE LET order == OrderAt(vm.orderId) IN
         IF order.inputAmount = 0 THEN Reverted("InvalidOrder")
         ELSE IF order.status # "PENDING" THEN Reverted("OrderAlreadySettled")
         ELSE IF usdcBal[Vault] < order.inputAmount THEN Reverted("TransferFailed")
         ELSE Settled(vm, order.inputAmount)

settleOrder_noReplayCheck(vm) ==
    IF ~vm.valid THEN Reverted("InvalidVAA")
    ELSE IF vm.emitterChainId # SUI_CHAIN_ID THEN Reverted("InvalidEmitterChain")
    ELSE IF vm.emitterAddress # SuiEmitter THEN Reverted("InvalidEmitterAddress")
    ELSE LET order == OrderAt(vm.orderId) IN
         IF order.inputAmount = 0 THEN Reverted("InvalidOrder")
         ELSE IF order.status # "PENDING" THEN Reverted("OrderAlreadySettled")
         ELSE LET requiredAmountAtExecution == getRequiredAmountAt(order, vm.timestamp) IN
              IF ~requiredAmountAtExecution.ok THEN Reverted("Panic")
              ELSE IF vm.amountPaidBySolver < requiredAmountAtExecution.val
                   THEN Reverted("BidTooLow")
              ELSE IF usdcBal[Vault] < order.inputAmount THEN Reverted("TransferFailed")
              ELSE Settled(vm, order.inputAmount)

settleOrder_paysBid(vm) ==
    IF ~vm.valid THEN Reverted("InvalidVAA")
    ELSE IF VaaHash(vm) \in processedVaas THEN Reverted("VAAAlreadyProcessed")
    ELSE IF vm.emitterChainId # SUI_CHAIN_ID THEN Reverted("InvalidEmitterChain")
    ELSE IF vm.emitterAddress # SuiEmitter THEN Reverted("InvalidEmitterAddress")
    ELSE LET order == OrderAt(vm.orderId) IN
         IF order.inputAmount = 0 THEN Reverted("InvalidOrder")
         ELSE IF order.status # "PENDING" THEN Reverted("OrderAlreadySettled")
         ELSE LET requiredAmountAtExecution == getRequiredAmountAt(order, vm.timestamp) IN
              IF ~requiredAmountAtExecution.ok THEN Reverted("Panic")
              ELSE IF vm.amountPaidBySolver < requiredAmountAtExecution.val
                   THEN Reverted("BidTooLow")
              ELSE IF usdcBal[Vault] < vm.amountPaidBySolver THEN Reverted("TransferFailed")
              ELSE Settled(vm, vm.amountPaidBySolver)

settleOrder_noStatusCheck(vm) ==
    IF ~vm.valid THEN Reverted("InvalidVAA")
    ELSE IF VaaHash(vm) \in processedVaas THEN Reverted("VAAAlreadyProcessed")
    ELSE IF vm.emitterChainId # SUI_CHAIN_ID THEN Reverted("InvalidEmitterChain")
    ELSE IF vm.emitterAddress # SuiEmitter THEN Reverted("InvalidEmitterAddress")
    ELSE LET order == OrderAt(vm.orderId) IN
         IF order.inputAmount = 0 THEN Reverted("InvalidOrder")
         ELSE LET requiredAmountAtExecution == getRequiredAmountAt(order, vm.timestamp) IN
              IF ~requiredAmountAtExecution.ok THEN Reverted("Panic")
              ELSE IF vm.amountPaidBySolver < requiredAmountAtExecution.val
                   THEN Reverted("BidTooLow")
              ELSE IF usdcBal[Vault] < order.inputAmount THEN Reverted("TransferFailed")
              ELSE Settled(vm, order.inputAmount)

\* IntentBridge.settleOrder(encodedVM): the outcome of the call in the current state
settleOrder(vm) ==
    IF ~vm.valid THEN Reverted("InvalidVAA")
    ELSE IF VaaHash(vm) \in processedVaas THEN Reverted("VAAAlreadyProcessed")
    ELSE IF vm.emitterChainId # SUI_CHAIN_ID THEN Reverted("InvalidEmitterChain")
    ELSE IF vm.emitterAddress # SuiEmitter THEN Reverted("InvalidEmitterAddress")
    ELSE LET order == OrderAt(vm.orderId) IN
         IF order.inputAmount = 0 THEN Reverted("InvalidOrder")
         ELSE IF order.status # "PENDING" THEN Reverted("OrderAlreadySettled")
         ELSE LET requiredAmountAtExecution == getRequiredAmountAt(order, vm.timestamp) IN
              IF ~requiredAmountAtExecution.ok THEN Reverted("Panic")
              ELSE IF vm.amountPaidBySolver < requiredAmountAtExecution.val
                   THEN Reverted("BidTooLow")
              ELSE IF usdcBal[Vault] < order.inputAmount THEN Reverted("TransferFailed")
              ELSE Settled(vm, order.inputAmount)

\* the transaction that carries a settleOrder call
SettleTx(vm) ==
    LET outcome == settleOrder(vm) IN
    /\ lastErr' = outcome.err
    /\ processedVaas' = outcome.processedVaas
    /\ orders' = outcome.orders
    /\ usdcBal' = outcome.usdcBal
    /\ UNCHANGED nextOrderId

\* ------------------------------------------------ the vault on its own

\* VAAs a caller can hand to settleOrder: guardian-signed messages of the
\* registered Sui emitter with any payload (solve_and_prove publishes whatever
\* solver address its caller passes, the vault's own included) and timestamp, and for each
\* timestamp one with a bad signature, one from another chain and one from
\* another Sui emitter.
GoodVaas ==
    [valid : {TRUE}, emitterChainId : {SUI_CHAIN_ID}, emitterAddress : {SuiEmitter},
     sequence : {1}, timestamp : 0..MaxTime, orderId : 0..(MaxOrders - 1),
     solverAddress : {"solver", Vault}, amountPaidBySolver : OutputAmounts]

BadVaas ==
    UNION {{[vm EXCEPT !.valid = FALSE],
            [vm EXCEPT !.emitterChainId = 2],
            [vm EXCEPT !.emitterAddress = "rogue_module"]} :
           vm \in {g \in GoodVaas : /\ g.orderId = 0
                                    /\ g.solverAddress = "solver"
                                    /\ g.amountPaidBySolver = MaxAmount}}

VaaInputs == GoodVaas \cup BadVaas

EvmInit ==
    /\ nextOrderId = 0
    /\ orders = [i \in 0..(MaxOrders - 1) |-> EmptyOrder]
    /\ processedVaas = {}
    /\ usdcBal = [a \in Accounts |-> IF a = User THEN UserFunds ELSE 0]
    /\ lastErr = "ok"

PriceIdle ==
    /\ px = [startAmount |-> 0, minAmount |-> 0, startTime |-> 0, duration |-> 0,
             currentTime |-> 0]
    /\ pxOut = [ts |-> <<>>, bot |-> <<>>, sol |-> <<>>, cur |-> <<>>, move |-> <<>>,
                prev |-> <<>>]

NoOrder == [orderId |-> 0, requiredSuiRaw |-> 0, seq |-> 0, attempts |-> 0]

\* nothing was published through Wormhole
SuiIdle ==
    /\ suiBal = [a \in Accounts |-> 0]
    /\ ethBal = [a \in Accounts |-> 0]
    /\ intents = <<>>
    /\ whMsgs = <<>>
    /\ signedVaas = {}

\* no solver is running
SolverIdle ==
    /\ pc = "off"
    /\ starts = 0
    /\ lastBlock = 0
    /\ currentBlock = 0
    /\ nextCursor = 0
    /\ batch = <<>>
    /\ cur = NoOrder
    /\ errLog = {}
    /\ fetchedVaas = {}
    /\ settleTxs = {}
    /\ timedOut = {}
    /\ delivered = {}

\* no polling loop is running
NoPoll == [script |-> "none", attempts |-> 0, elapsed |-> 0, status |-> "off", last |-> "none"]

PollIdle == poll = NoPoll

\* the self-hosted solver is not running
NoHost ==
    [stage |-> "off", cfg |-> {}, sub |-> "none", cursor |-> 0, events |-> 0,
     claimed |-> {}, paid |-> <<>>, log |-> {}]

HostIdle == host = NoHost

Tick ==
    /\ time < MaxTime
    /\ time' = time + 1

VaultCreate ==
    /\ \E inputAmount \in InputAmounts, a \in AuctionConfigs :
           createOrder(User, inputAmount, a[1], a[2], a[3])
    /\ UNCHANGED <<time, priceVars, poll, host, delivered, suiVars, solverVars>>

\* settleOrder is called with a VAA stamped in the current second
VaultSettle ==
    /\ \E vm \in VaaInputs : vm.timestamp = time /\ SettleTx(vm)
    /\ UNCHANGED <<time, priceVars, poll, host, delivered, suiVars, solverVars>>

VaultTick ==
    /\ Tick
    /\ UNCHANGED <<evmVars, priceVars, poll, host, delivered, suiVars, solverVars>>

VaultInit ==
    /\ time = 0
    /\ EvmInit
    /\ PriceIdle
    /\ SuiIdle
    /\ SolverIdle
    /\ PollIdle
    /\ HostIdle

VaultNext ==
    \/ VaultCreate
    \/ VaultSettle
    \/ VaultTick

VaultSpec == VaultInit /\ [][VaultNext]_vars

\* the checks settleOrder makes before it looks at the price
PassesVaaChecks(vm) ==
    /\ vm.valid
    /\ VaaHash(vm) \notin processedVaas
    /\ vm.emitterChainId = SUI_CHAIN_ID
    /\ vm.emitterAddress = SuiEmitter
    /\ OrderAt(vm.orderId).inputAmount # 0
    /\ OrderAt(vm.orderId).status = "PENDING"

\* the call left order status, replay table and balances as they were
NothingChanged(outcome) ==
    /\ outcome.processedVaas = processedVaas
    /\ outcome.orders = orders
    /\ outcome.usdcBal = usdcBal

\* C7: a VAA hash is accepted at most once. In every state, a settleOrder call
\* that succeeds carries a hash not yet in processedVaas and records it, and a
\* settleOrder call with a verified VAA whose hash is recorded is rejected with
\* VAAAlreadyProcessed and leaves order status, replay table and balances as
\* they were.
C7_VaaAcceptedOnce ==
    \A vm \in VaaInputs :
        LET outcome == settleOrder(vm) IN
        /\ outcome.err = "ok" =>
              /\ VaaHash(vm) \notin processedVaas
              /\ outcome.processedVaas = processedVaas \cup {VaaHash(vm)}
        /\ (vm.valid /\ VaaHash(vm) \in processedVaas) =>
              /\ outcome.err = "VAAAlreadyProcessed"
              /\ NothingChanged(outcome)

\* a settled order's VAA was presented again and the call was rejected as a replay
C7_Witness ==
    /\ lastErr = "VAAAlreadyProcessed"
    /\ processedVaas # {}
    /\ \E i \in DOMAIN orders : orders[i].status = "SETTLED"

\* C8: a successful settleOrder moves the order named in the VAA from PENDING
\* to SETTLED and transfers exactly the order's inputAmount from the vault to
\* the solver address decoded from the VAA; no other order and no other balance
\* changes. (When the decoded address is the vault itself the transfer leaves
\* every balance as it was.)
C8_SettleEffect ==
    \A vm \in VaaInputs :
        LET order == OrderAt(vm.orderId)
            after == settleOrder(vm)
        IN  after.err = "ok" =>
                /\ order.status = "PENDING"
                /\ after.orders[vm.orderId].status = "SETTLED"
                /\ \A i \in DOMAIN orders \ {vm.orderId} : after.orders[i] = orders[i]
                /\ usdcBal[Vault] >= order.inputAmount
                /\ IF vm.solverAddress = Vault
                   THEN after.usdcBal = usdcBal
                   ELSE /\ after.usdcBal[vm.solverAddress]
                              = usdcBal[vm.solverAddress] + order.inputAmount
                        /\ after.usdcBal[Vault] = usdcBal[Vault] - order.inputAmount
                /\ \A a \in Accounts \ {Vault, vm.solverAddress} :
                      after.usdcBal[a] = usdcBal[a]

\* an order was settled and a solver holds its inputAmount
C8_Witness ==
    /\ lastErr = "ok"
    /\ \E i \in DOMAIN orders, s \in Solvers :
          /\ orders[i].status = "SETTLED"
          /\ orders[i].inputAmount > 0
          /\ usdcBal[s] = orders[i].inputAmount

\* C9: whenever the amount in the VAA is lower than the amount required at the
\* VAA's timestamp, settleOrder fails and leaves order status, replay table and
\* balances unchanged; when the VAA passes the checks made before the price
\* check, the failure is BidTooLow.
C9_BidTooLowRejected ==
    \A vm \in VaaInputs :
        LET required == getRequiredAmountAt(OrderAt(vm.orderId), vm.timestamp)
            outcome == settleOrder(vm)
        IN  (required.ok /\ vm.amountPaidBySolver < required.val) =>
                /\ outcome.err # "ok"
                /\ NothingChanged(outcome)
                /\ PassesVaaChecks(vm) => outcome.err = "BidTooLow"

\* a pending order's settlement was refused for an underpaying VAA
C9_Witness ==
    /\ lastErr = "BidTooLow"
    /\ \E i \in DOMAIN orders : orders[i].inputAmount > 0 /\ orders[i].status = "PENDING"

\* ------------------------------------------- the price functions on their own

\* Auction parameters and clock readings the price functions are evaluated on:
\* every small combination, and the documented 100 / 50 / 600 auction.
PxAmounts == 0..MaxAmount \cup {50, 100}
PxStartTimes == {0, 1, 10}
PxDurations == 0..MaxDuration \cup {600}
PxTimes == 0..MaxTime \cup {310, 610}

PxOrder ==
    [depositor |-> User, inputAmount |-> MIN_PROFIT_USDC_RAW,
     startOutputAmount |-> px.startAmount, minOutputAmount |-> px.minAmount,
     startTime |-> px.startTime, duration |-> px.duration, status |-> "PENDING"]

NoResults ==
    [ts |-> <<>>, bot |-> <<>>, sol |-> <<>>, cur |-> <<>>, move |-> <<>>, prev |-> <<>>]

\* One auction, stored as order 0 of the vault, and a clock reading.
PriceInit ==
    /\ px \in [startAmount : PxAmounts, minAmount : PxAmounts, startTime : PxStartTimes,
                duration : PxDurations, currentTime : PxTimes]
    /\ pxOut = NoResults
    /\ time = px.currentTime
    /\ nextOrderId = 1
    /\ orders = [i \in 0..(MaxOrders - 1) |-> IF i = 0 THEN PxOrder ELSE EmptyOrder]
    /\ processedVaas = {}
    /\ usdcBal = [a \in Accounts |-> IF a = Vault THEN MIN_PROFIT_USDC_RAW ELSE 0]
    /\ lastErr = "ok"
    /\ SuiIdle
    /\ SolverIdle
    /\ PollIdle
    /\ HostIdle

CalcOffChain ==
    /\ pxOut.ts = <<>>
    /\ pxOut' = [pxOut EXCEPT !.ts =
                   <<calculateCurrentPrice(px.startAmount, px.minAmount, px.startTime,
                                           px.duration, px.currentTime)>>]
    /\ UNCHANGED <<time, evmVars, px, suiVars, solverVars, poll, host, delivered>>

CalcBot ==
    /\ pxOut.bot = <<>>
    /\ pxOut' = [pxOut EXCEPT !.bot =
                   <<calculateDutchPrice(px.startAmount, px.minAmount, px.startTime,
                                         px.duration, px.currentTime)>>]
    /\ UNCHANGED <<time, evmVars, px, suiVars, solverVars, poll, host, delivered>>

CalcSolidity ==
    /\ pxOut.sol = <<>>
    /\ pxOut' = [pxOut EXCEPT !.sol = <<getRequiredAmountAt(orders[0], px.currentTime)>>]
    /\ UNCHANGED <<time, evmVars, px, suiVars, solverVars, poll, host, delivered>>

CalcSolidityCurrent ==
    /\ pxOut.cur = <<>>
    /\ pxOut' = [pxOut EXCEPT !.cur = <<getCurrentRequiredAmount(0)>>]
    /\ UNCHANGED <<time, evmVars, px, suiVars, solverVars, poll, host, delivered>>

CalcMove ==
    /\ pxOut.move = <<>>
    /\ pxOut' = [pxOut EXCEPT !.move =
                   <<calculate_required_amount_internal(px.startAmount, px.minAmount,
                         px.startTime, px.duration, px.currentTime)>>]
    /\ UNCHANGED <<time, evmVars, px, suiVars, solverVars, poll, host, delivered>>

\* the clock moves on; the off-chain price of the earlier reading is kept
AdvanceClock ==
    /\ pxOut.ts # <<>>
    /\ \E t \in PxTimes :
          /\ t > px.currentTime
          /\ px' = [px EXCEPT !.currentTime = t]
          /\ time' = t
    /\ pxOut' = [NoResults EXCEPT !.prev = pxOut.ts]
    /\ UNCHANGED <<evmVars, suiVars, solverVars, poll, host, delivered>>

PriceNext ==
    \/ CalcOffChain
    \/ CalcBot
    \/ CalcSolidity
    \/ CalcSolidityCurrent
    \/ CalcMove
    \/ AdvanceClock

PriceSpec == PriceInit /\ [][PriceNext]_vars

ValidAuction == px.minAmount <= px.startAmount /\ px.duration > 0

C6_MonotoneWithEndpoints ==
    (ValidAuction /\ pxOut.ts # <<>>) =>
        /\ pxOut.prev # <<>> => pxOut.ts[1] <= pxOut.prev[1]
        /\ px.currentTime = px.startTime => pxOut.ts[1] = px.startAmount
        /\ px.currentTime = px.startTime + px.duration => pxOut.ts[1] = px.minAmount
        /\ \A t1 \in PxTimes, t2 \in PxTimes :
              t1 <= t2 =>
                  calculateCurrentPrice(px.startAmount, px.minAmount, px.startTime,
                                        px.duration, t2)
                  <= calculateCurrentPrice(px.startAmount, px.minAmount, px.startTime,
                                           px.duration, t1)

\* a price that dropped between two readings of the clock and reached the floor
\* exactly at startTime + duration
C6_Witness ==
    /\ ValidAuction
    /\ pxOut.prev # <<>> /\ pxOut.ts # <<>>
    /\ pxOut.ts[1] < pxOut.prev[1]
    /\ px.currentTime = px.startTime + px.duration
    /\ pxOut.ts[1] = px.minAmount

\* --------------------------------------------- the EVM -> Sui solver (Direction A)

Solver == "solver"
Skews == (0 - MaxSkew)..MaxSkew

\* solver_engine::u64_to_bytes_be: the 8 bytes of val, extracted low byte
\* first and then reversed
RECURSIVE ShiftedRight(_, _)
ShiftedRight(temp, i) == IF i = 0 THEN temp ELSE ShiftedRight(temp \div 256, i - 1)

u64_to_bytes_be(val) ==
    LET bytes == [i \in 1..8 |-> ShiftedRight(val, i - 1) % 256]
    IN  [i \in 1..8 |-> bytes[9 - i]]

\* abi.decode of a big-endian word as uint256
abi_decode_uint(word) ==
    LET zeros == {n \in 0..Len(word) : \A m \in 1..n : word[m] = 0}
        RECURSIVE decode(_)
        decode(n) == IF n \in zeros THEN 0 ELSE decode(n - 1) * 256 + word[n]
    IN  decode(Len(word))

\* the amount word of the payload: 24 zero bytes, then the amount in 8 bytes
AmountWord(amount_to_send) == [j \in 1..24 |-> 0] \o u64_to_bytes_be(amount_to_send)

solve_and_prove_keepsChange(sender, recipient, intent_id, amount_to_send) ==
    /\ suiBal[sender] >= amount_to_send
    /\ suiBal' = [suiBal EXCEPT ![sender] = 0,
                                ![recipient] = @ + suiBal[sender]]
    /\ whMsgs' = Append(whMsgs, [emitterChainId |-> SUI_CHAIN_ID,
                                 emitterAddress |-> SuiEmitter, orderId |-> intent_id,
                                 solverAddress |-> sender,
                                 amount |-> abi_decode_uint(AmountWord(amount_to_send)),
                                 timestamp |-> time])

\* solver_engine::solve_and_prove inside the transaction processOrder builds
\* (splitCoins of amount_to_send from the gas coin, then the call): the
\* recipient is paid and a message (intent_id, solver, amount) is published
\* with the ledger's timestamp. Not enabled when the sender cannot pay.
solve_and_prove(sender, recipient, intent_id, amount_to_send) ==
    /\ suiBal[sender] >= amount_to_send
    /\ suiBal' = [suiBal EXCEPT ![sender] = @ - amount_to_send,
                                ![recipient] = @ + amount_to_send]
    /\ whMsgs' = Append(whMsgs, [emitterChainId |-> SUI_CHAIN_ID,
                                 emitterAddress |-> SuiEmitter, orderId |-> intent_id,
                                 solverAddress |-> sender,
                                 amount |-> abi_decode_uint(AmountWord(amount_to_send)),
                                 timestamp |-> time])

\* evmPublicClient.getLogs: the OrderCreated events of blocks fromBlock..toBlock
\* (one block per second)
getLogs(fromBlock, toBlock) ==
    SelectSeq([i \in 1..nextOrderId |-> i - 1],
              LAMBDA id : fromBlock <= orders[id].startTime /\ orders[id].startTime <= toBlock)

\* the VAA the guardians issue for message seq; fetched tells whether the
\* solver holds its signed bytes
VaaOf(seq, fetched) ==
    [valid |-> fetched, emitterChainId |-> whMsgs[seq].emitterChainId,
     emitterAddress |-> whMsgs[seq].emitterAddress, sequence |-> seq, timestamp |-> whMsgs[seq].timestamp, orderId |-> whMsgs[seq].orderId,
     solverAddress |-> whMsgs[seq].solverAddress,
     amountPaidBySolver |-> whMsgs[seq].amount]

\* the catch block of processOrder / processIntent
LogError(orderId) == errLog' = errLog \cup {[where |-> "order", orderId |-> orderId]}

\* potentialProfit < MIN_PROFIT_USDC, in units of 1e-9 USDC
NotProfitable(inputAmount, requiredSuiRaw) ==
    inputAmount * 1000 - requiredSuiRaw * MOCK_SUI_PRICE_USDC < MIN_PROFIT_USDC_RAW * 1000

\* main: lastBlock = getBlockNumber()
main_start ==
    /\ pc = "off"
    /\ starts = 0
    /\ starts' = 1
    /\ lastBlock' = time
    /\ pc' = "poll"
    /\ UNCHANGED <<time, evmVars, priceVars, poll, host, delivered, suiVars, currentBlock, nextCursor, batch, cur,
                   errLog, fetchedVaas, settleTxs, timedOut>>

\* main: one iteration that finds new blocks and reads their logs
main_poll ==
    /\ pc = "poll"
    /\ time > lastBlock
    /\ currentBlock' = time
    /\ batch' = getLogs(lastBlock, time)
    /\ pc' = "logs"
    /\ UNCHANGED <<time, evmVars, priceVars, poll, host, delivered, suiVars, starts, lastBlock, nextCursor, cur,
                   errLog, fetchedVaas, settleTxs, timedOut>>

main_pollError_advances ==
    /\ pc = "poll"
    /\ errLog' = errLog \cup {[where |-> "main", orderId |-> -1]}
    /\ lastBlock' = time + 1
    /\ nextCursor' = nextCursor + 1
    /\ UNCHANGED <<time, evmVars, priceVars, poll, host, delivered, suiVars, pc, starts, currentBlock,
                   batch, cur, fetchedVaas, settleTxs, timedOut>>

\* main: getBlockNumber or getLogs throws
main_pollError ==
    /\ pc = "poll"
    /\ errLog' = errLog \cup {[where |-> "main", orderId |-> -1]}
    /\ UNCHANGED <<time, evmVars, priceVars, poll, host, delivered, suiVars, pc, loopVars, batch, cur,
                   fetchedVaas, settleTxs, timedOut>>

main_endLogs_skipsBlock ==
    /\ pc = "logs"
    /\ batch = <<>>
    /\ lastBlock' = currentBlock + 2
    /\ pc' = "poll"
    /\ UNCHANGED <<time, evmVars, priceVars, poll, host, delivered, suiVars, starts, currentBlock, nextCursor,
                   batch, cur, errLog, fetchedVaas, settleTxs, timedOut>>

\* main: every log of the iteration was processed
main_endLogs ==
    /\ pc = "logs"
    /\ batch = <<>>
    /\ lastBlock' = currentBlock + 1
    /\ pc' = "poll"
    /\ UNCHANGED <<time, evmVars, priceVars, poll, host, delivered, suiVars, starts, currentBlock, nextCursor,
                   batch, cur, errLog, fetchedVaas, settleTxs, timedOut>>

processOrder_price_noGate ==
    /\ pc = "logs"
    /\ batch # <<>>
    /\ \E skew \in Skews :
          LET orderId == Head(batch)
              args == orders[orderId]
              currentTime == time + skew
              requiredSuiRaw == calculateCurrentPrice(args.startOutputAmount,
                                    args.minOutputAmount, args.startTime, args.duration,
                                    currentTime)
          IN  /\ pc' = "solve"
              /\ cur' = [orderId |-> orderId, requiredSuiRaw |-> requiredSuiRaw,
                         seq |-> 0, attempts |-> 0]
    /\ batch' = Tail(batch)
    /\ delivered' = delivered \cup {Head(batch)}
    /\ UNCHANGED <<time, evmVars, priceVars, poll, host, suiVars, loopVars, errLog,
                   fetchedVaas, settleTxs, timedOut>>

\* processOrder up to the profitability gate: the price at the host's clock
processOrder_price ==
    /\ pc = "logs"
    /\ batch # <<>>
    /\ \E skew \in Skews :
          LET orderId == Head(batch)
              args == orders[orderId]
              currentTime == time + skew
              requiredSuiRaw == calculateCurrentPrice(args.startOutputAmount,
                                    args.minOutputAmount, args.startTime, args.duration,
                                    currentTime)
          IN  IF NotProfitable(args.inputAmount, requiredSuiRaw)
              THEN pc' = "logs" /\ cur' = NoOrder
              ELSE /\ pc' = "solve"
                   /\ cur' = [orderId |-> orderId, requiredSuiRaw |-> requiredSuiRaw,
                              seq |-> 0, attempts |-> 0]
    /\ batch' = Tail(batch)
    /\ delivered' = delivered \cup {Head(batch)}
    /\ UNCHANGED <<time, evmVars, priceVars, poll, host, suiVars, loopVars, errLog,
                   fetchedVaas, settleTxs, timedOut>>

processOrder_solve_ignoresStatus ==
    /\ pc = "solve"
    /\ IF suiBal[Solver] >= cur.requiredSuiRaw
       THEN /\ solve_and_prove(Solver, User, cur.orderId, cur.requiredSuiRaw)
            /\ cur' = [cur EXCEPT !.seq = Len(whMsgs) + 1]
       ELSE UNCHANGED <<suiBal, whMsgs, cur>>
    /\ pc' = "parse"
    /\ UNCHANGED <<time, evmVars, priceVars, poll, host, delivered, signedVaas, ethBal, intents, loopVars, batch,
                   errLog, fetchedVaas, settleTxs, timedOut>>

\* processOrder: the Sui transaction and the check of its status
processOrder_solve ==
    /\ pc = "solve"
    /\ IF suiBal[Solver] >= cur.requiredSuiRaw
       THEN /\ solve_and_prove(Solver, User, cur.orderId, cur.requiredSuiRaw)
            /\ cur' = [cur EXCEPT !.seq = Len(whMsgs) + 1]
            /\ pc' = "parse"
            /\ UNCHANGED errLog
       ELSE /\ LogError(cur.orderId)
            /\ cur' = NoOrder
            /\ pc' = "logs"
            /\ UNCHANGED <<suiBal, whMsgs>>
    /\ UNCHANGED <<time, evmVars, priceVars, poll, host, delivered, signedVaas, ethBal, intents, loopVars, batch,
                   fetchedVaas, settleTxs, timedOut>>

\* fetchVAA: one parseTransaction; it finds the message, or the loop retries
\* PARSE_ATTEMPTS times, tries once more and throws
fetchVAA_parse ==
    /\ pc = "parse"
    /\ \E found \in BOOLEAN :
          /\ found => cur.seq \in 1..Len(whMsgs)
          /\ IF found
             THEN pc' = "getVaa" /\ UNCHANGED <<cur, errLog>>
             ELSE IF cur.attempts < PARSE_ATTEMPTS
             THEN /\ cur' = [cur EXCEPT !.attempts = @ + 1]
                  /\ UNCHANGED <<pc, errLog>>
             ELSE /\ LogError(cur.orderId)
                  /\ cur' = NoOrder
                  /\ pc' = "logs"
    /\ UNCHANGED <<time, evmVars, priceVars, poll, host, delivered, suiVars, loopVars, batch,
                   fetchedVaas, settleTxs, timedOut>>

\* fetchVAA: getVaa returns the signed VAA
fetchVAA_getVaa ==
    /\ pc = "getVaa"
    /\ cur.seq \in signedVaas
    /\ fetchedVaas' = fetchedVaas \cup {cur.seq}
    /\ pc' = "settle"
    /\ UNCHANGED <<time, evmVars, priceVars, poll, host, delivered, suiVars, loopVars, batch, cur,
                   errLog, settleTxs, timedOut>>

fetchVAA_timeout_goesOn ==
    /\ pc = "getVaa"
    /\ cur.seq \notin signedVaas
    /\ timedOut' = timedOut \cup {cur.orderId}
    /\ pc' = "settle"
    /\ UNCHANGED <<time, evmVars, priceVars, poll, host, delivered, suiVars, loopVars, batch, cur,
                   errLog, fetchedVaas, settleTxs>>

fetchVAA_timeout_escapes ==
    /\ pc = "getVaa"
    /\ cur.seq \notin signedVaas
    /\ timedOut' = timedOut \cup {cur.orderId}
    /\ errLog' = errLog \cup {[where |-> "main", orderId |-> -1]}
    /\ cur' = NoOrder
    /\ batch' = <<>>
    /\ pc' = "poll"
    /\ UNCHANGED <<time, evmVars, priceVars, poll, host, delivered, suiVars, loopVars,
                   fetchedVaas, settleTxs>>

\* The same polling without a deadline: getVaa is asked again for as long as
\* the guardians have not signed.
fetchVAA_timeout_pollsOn ==
    /\ pc = "getVaa"
    /\ cur.seq \notin signedVaas
    /\ cur' = [cur EXCEPT !.attempts = (@ + 1) % 2]
    /\ UNCHANGED <<time, evmVars, priceVars, poll, host, delivered, suiVars, loopVars, batch,
                   pc, errLog, fetchedVaas, settleTxs, timedOut>>

\* fetchVAA: getVaa runs out of time; fetchVAA throws and processOrder logs it
fetchVAA_timeout ==
    /\ pc = "getVaa"
    /\ cur.seq \notin signedVaas
    /\ timedOut' = timedOut \cup {cur.orderId}
    /\ LogError(cur.orderId)
    /\ cur' = NoOrder
    /\ pc' = "logs"
    /\ UNCHANGED <<time, evmVars, priceVars, poll, host, delivered, suiVars, loopVars, batch,
                   fetchedVaas, settleTxs>>

processOrder_settle_retriesOnRevert ==
    /\ pc = "settle"
    /\ SettleTx(VaaOf(cur.seq, cur.seq \in fetchedVaas))
    /\ settleTxs' = settleTxs \cup {[orderId |-> cur.orderId, seq |-> cur.seq]}
    /\ IF lastErr' # "ok"
       THEN LogError(cur.orderId) /\ UNCHANGED <<cur, pc>>
       ELSE UNCHANGED errLog /\ cur' = NoOrder /\ pc' = "logs"
    /\ UNCHANGED <<time, priceVars, poll, host, delivered, suiVars, loopVars, batch, fetchedVaas,
                   timedOut>>

\* processOrder: settleOrder is sent with the fetched VAA; a revert is logged
processOrder_settle ==
    /\ pc = "settle"
    /\ SettleTx(VaaOf(cur.seq, cur.seq \in fetchedVaas))
    /\ settleTxs' = settleTxs \cup {[orderId |-> cur.orderId, seq |-> cur.seq]}
    /\ IF lastErr' # "ok" THEN LogError(cur.orderId) ELSE UNCHANGED errLog
    /\ cur' = NoOrder
    /\ pc' = "logs"
    /\ UNCHANGED <<time, priceVars, poll, host, delivered, suiVars, loopVars, batch, fetchedVaas,
                   timedOut>>

\* processOrder: writeContract throws before a transaction is on the chain
\* (RPC or network error); the catch block logs it and processOrder returns
processOrder_settleRpcError ==
    /\ pc = "settle"
    /\ LogError(cur.orderId)
    /\ cur' = NoOrder
    /\ pc' = "logs"
    /\ UNCHANGED <<time, evmVars, priceVars, poll, host, delivered, suiVars, loopVars, batch,
                   fetchedVaas, settleTxs, timedOut>>

\* the guardians sign a published message
GuardianSign ==
    /\ \E seq \in 1..Len(whMsgs) :
          /\ seq \notin signedVaas
          /\ signedVaas' = signedVaas \cup {seq}
    /\ UNCHANGED <<time, evmVars, priceVars, poll, host, delivered, suiBal, ethBal, intents, whMsgs, solverVars>>

Init ==
    /\ time = 0
    /\ EvmInit
    /\ PriceIdle
    /\ suiBal = [a \in Accounts |-> IF a = Solver THEN SolverFunds ELSE 0]
    /\ ethBal = [a \in Accounts |-> 0]
    /\ intents = <<>>
    /\ whMsgs = <<>>
    /\ signedVaas = {}
    /\ SolverIdle
    /\ PollIdle
    /\ HostIdle

\* a user's createOrder is mined into the block of the current second, unless
\* the solver has already read that block's number as the chain's head: a
\* block that getBlockNumber has returned takes no more transactions
user_createOrder ==
    /\ currentBlock = 0 \/ currentBlock < time
    /\ VaultCreate

Next ==
    \/ user_createOrder
    \/ VaultTick
    \/ GuardianSign
    \/ main_start
    \/ main_poll
    \/ main_pollError
    \/ main_endLogs
    \/ processOrder_price
    \/ processOrder_solve
    \/ fetchVAA_parse
    \/ fetchVAA_getVaa
    \/ fetchVAA_timeout
    \/ processOrder_settle
    \/ processOrder_settleRpcError

Spec == Init /\ [][Next]_vars

InPipeline == pc \in {"solve", "parse", "getVaa", "settle"}

MessagesFor(orderId) == {k \in 1..Len(whMsgs) : whMsgs[k].orderId = orderId}

\* C2: the stages of an order run strictly in sequence. The attestation fetch
\* (parse, getVaa) starts only when the fulfillment transaction of the order in
\* hand was confirmed successful, i.e. its message was published; settlement is
\* reached only with that message's VAA signed and fetched; and every
\* settlement ever submitted was for an order with a published fulfillment and
\* a fetched attestation of that same order.
C2_StagesInOrder ==
    /\ pc \in {"parse", "getVaa", "settle"} =>
          /\ cur.seq \in 1..Len(whMsgs)
          /\ whMsgs[cur.seq].orderId = cur.orderId
          /\ whMsgs[cur.seq].amount = cur.requiredSuiRaw
    /\ pc = "settle" => cur.seq \in fetchedVaas
    /\ fetchedVaas \subseteq signedVaas
    /\ signedVaas \subseteq 1..Len(whMsgs)
    /\ \A tx \in settleTxs :
          /\ tx.seq \in fetchedVaas
          /\ whMsgs[tx.seq].orderId = tx.orderId

\* an order went through fulfillment, fetch and settlement, and was settled
C2_Witness ==
    /\ \E tx \in settleTxs : orders[tx.orderId].status = "SETTLED"
    /\ usdcBal[Solver] > 0
    /\ pc = "logs"

\* C3: for every fulfillment of an auction with minOutputAmount <=
\* startOutputAmount and duration > 0, the amount the solver paid is at least
\* the amount getRequiredAmountAt gives at the timestamp of the attestation.
C3_PaidCoversRequired ==
    \A k \in 1..Len(whMsgs) :
        LET order == orders[whMsgs[k].orderId]
            required == getRequiredAmountAt(order, whMsgs[k].timestamp)
        IN  (order.minOutputAmount <= order.startOutputAmount /\ order.duration > 0)
                => (required.ok /\ whMsgs[k].amount >= required.val)

\* C10: when the attestation fetch of an order times out, the failure is shown
\* to the operator, no settlement is ever submitted for the order, the order is
\* not worked on again and it is not fulfilled a second time.
C10_TimeoutEndsFailed ==
    \A orderId \in timedOut :
        /\ [where |-> "order", orderId |-> orderId] \in errLog
        /\ \A tx \in settleTxs : tx.orderId # orderId
        /\ ~(InPipeline /\ cur.orderId = orderId)
        /\ Cardinality(MessagesFor(orderId)) = 1
        /\ orders[orderId].status = "PENDING"

\* a fetch timed out and the solver went back to polling
C10_Witness ==
    /\ timedOut # {}
    /\ pc = "poll"
    /\ \E orderId \in timedOut : MessagesFor(orderId) # {}

\* --------------------------------------------- the Sui -> EVM solver (Direction B)

EvmEmitter == "IntentBridge"
SuiInputs == {0, MIN_PROFIT_MIST, 2 * MIN_PROFIT_MIST}

\* intent::create_intent; times are the Sui clock in ms
create_intent(creator, sui_amount, start_output_amount, min_output_amount, duration) ==
    /\ Len(intents) < MaxOrders
    /\ IF sui_amount = 0 THEN lastErr' = "EZeroAmount" /\ UNCHANGED <<intents, suiBal>>
       ELSE IF suiBal[creator] < sui_amount
       THEN lastErr' = "InsufficientCoinBalance" /\ UNCHANGED <<intents, suiBal>>
       ELSE /\ intents' = Append(intents,
                   [input_balance |-> sui_amount, start_output_amount |-> start_output_amount,
                    min_output_amount |-> min_output_amount, start_time |-> time * 1000,
                    duration |-> duration, creator |-> creator, live |-> TRUE])
            /\ suiBal' = [suiBal EXCEPT ![creator] = @ - sui_amount]
            /\ lastErr' = "ok"

MessageFee == 1     \* wormhole.messageFee(), in wei

fulfillOrder_anyValue(sender, intentId, recipient, solverSuiAddress, amount, msgValue) ==
    /\ ethBal[sender] >= msgValue
    /\ msgValue >= amount
    /\ lastErr' = "ok"
    /\ ethBal' = [[ethBal EXCEPT ![sender] = @ - msgValue] EXCEPT ![recipient] = @ + amount]
    /\ whMsgs' = Append(whMsgs, [emitterChainId |-> BASE_SEPOLIA_CHAIN_ID,
                                 emitterAddress |-> EvmEmitter, orderId |-> intentId,
                                 solverAddress |-> solverSuiAddress, amount |-> amount,
                                 timestamp |-> time])

\* IntentBridge.fulfillOrder sent by sender with msg.value = msgValue: unless
\* msg.value is amount + fee the call reverts, and so it does when the
\* recipient takes no ETH (the bridge contract has no receive function); else
\* the recipient is paid amount, the fee goes to the Wormhole core contract and (intentId,
\* solverSuiAddress, amount) is published. Not enabled when the sender does
\* not hold msg.value.
fulfillOrder(sender, intentId, recipient, solverSuiAddress, amount, msgValue) ==
    /\ ethBal[sender] >= msgValue
    /\ IF msgValue # amount + MessageFee
       THEN /\ lastErr' = "IncorrectEthAmount"
            /\ UNCHANGED <<ethBal, whMsgs>>
       ELSE IF recipient = Vault
       THEN /\ lastErr' = "EthTransferFailed"
            /\ UNCHANGED <<ethBal, whMsgs>>
       ELSE /\ lastErr' = "ok"
            /\ ethBal' = [[ethBal EXCEPT ![sender] = @ - msgValue] EXCEPT ![recipient] = @ + amount]
            /\ whMsgs' = Append(whMsgs, [emitterChainId |-> BASE_SEPOLIA_CHAIN_ID,
                                         emitterAddress |-> EvmEmitter, orderId |-> intentId,
                                         solverAddress |-> solverSuiAddress, amount |-> amount,
                                         timestamp |-> time])

claim_intent_anyCaller(caller, intentId, vm) ==
    LET Fail(reason) == lastErr' = reason /\ UNCHANGED <<intents, suiBal>> IN
    IF ~(intentId \in 1..Len(intents) /\ intents[intentId].live) THEN Fail("ObjectNotFound")
    ELSE IF ~vm.valid THEN Fail("InvalidVAA")
    ELSE IF vm.emitterChainId # BASE_SEPOLIA_CHAIN_ID THEN Fail("EInvalidChain")
    ELSE IF vm.emitterAddress # EvmEmitter THEN Fail("EInvalidEmitter")
    ELSE IF vm.orderId # intentId THEN Fail("EInvalidIntentId")
    ELSE LET intent == intents[intentId]
             vaa_time_ms == vm.timestamp * 1000
             required_amount == calculate_required_amount_internal(
                                    intent.start_output_amount, intent.min_output_amount,
                                    intent.start_time, intent.duration, vaa_time_ms)
         IN  IF ~required_amount.ok THEN Fail("ArithmeticError")
             ELSE IF vm.amountPaidBySolver < required_amount.val THEN Fail("EBidTooLow")
             ELSE /\ suiBal' = [suiBal EXCEPT ![caller] = @ + intent.input_balance]
                  /\ intents' = [intents EXCEPT ![intentId].live = FALSE]
                  /\ lastErr' = "ok"

\* intent::claim_intent called by caller on the Intent object intentId
claim_intent(caller, intentId, vm) ==
    LET Fail(reason) == lastErr' = reason /\ UNCHANGED <<intents, suiBal>> IN
    IF ~(intentId \in 1..Len(intents) /\ intents[intentId].live) THEN Fail("ObjectNotFound")
    ELSE IF ~vm.valid THEN Fail("InvalidVAA")
    ELSE IF vm.emitterChainId # BASE_SEPOLIA_CHAIN_ID THEN Fail("EInvalidChain")
    ELSE IF vm.emitterAddress # EvmEmitter THEN Fail("EInvalidEmitter")
    ELSE IF vm.orderId # intentId THEN Fail("EInvalidIntentId")
    ELSE IF vm.solverAddress # caller THEN Fail("ENotAuthorizedSolver")
    ELSE LET intent == intents[intentId]
             vaa_time_ms == vm.timestamp * 1000
             required_amount == calculate_required_amount_internal(
                                    intent.start_output_amount, intent.min_output_amount,
                                    intent.start_time, intent.duration, vaa_time_ms)
         IN  IF ~required_amount.ok THEN Fail("ArithmeticError")
             ELSE IF vm.amountPaidBySolver < required_amount.val THEN Fail("EBidTooLow")
             ELSE /\ suiBal' = [suiBal EXCEPT ![caller] = @ + intent.input_balance]
                  /\ intents' = [intents EXCEPT ![intentId].live = FALSE]
                  /\ lastErr' = "ok"

\* suiClient.queryEvents: up to QUERY_LIMIT IntentCreated events after cursor,
\* oldest first
queryEvents(cursor) ==
    LET n == IF Len(intents) - cursor > QUERY_LIMIT THEN QUERY_LIMIT ELSE Len(intents) - cursor
    IN  [data |-> [i \in 1..n |-> cursor + i],
         nextCursor |-> IF n = 0 THEN cursor ELSE cursor + n]

\* potentialProfit < MIN_PROFIT_USDC for an input in MIST and an output in wei
NotProfitableB(sui_amount, requiredAmountRaw) ==
    sui_amount - MIN_PROFIT_MIST
        < (requiredAmountRaw * MOCK_ETH_PRICE_USDC + GWEI - 1) \div GWEI

UserCreateIntent ==
    /\ \E sui_amount \in SuiInputs, a \in AuctionConfigs :
          create_intent(User, sui_amount, a[1], a[2], a[3] * 1000)
    /\ UNCHANGED <<time, ledger, priceVars, poll, host, delivered, ethBal, whMsgs, signedVaas, solverVars>>

\* main is started (again): nextCursor = null
mainB_start ==
    /\ starts < MaxStarts
    /\ starts' = starts + 1
    /\ nextCursor' = 0
    /\ batch' = <<>>
    /\ cur' = NoOrder
    /\ pc' = "poll"
    /\ UNCHANGED <<time, evmVars, priceVars, poll, host, delivered, suiVars, lastBlock, currentBlock, errLog,
                   fetchedVaas, settleTxs, timedOut>>

\* main: one iteration that reads a page of events
mainB_poll ==
    /\ pc = "poll"
    /\ queryEvents(nextCursor).data # <<>>
    /\ nextCursor' = queryEvents(nextCursor).nextCursor
    /\ batch' = queryEvents(nextCursor).data
    /\ pc' = "logs"
    /\ UNCHANGED <<time, evmVars, priceVars, poll, host, delivered, suiVars, starts, lastBlock, currentBlock, cur,
                   errLog, fetchedVaas, settleTxs, timedOut>>

\* main: the page was processed; the loop sleeps and polls again
mainB_endLogs ==
    /\ pc = "logs"
    /\ batch = <<>>
    /\ pc' = "poll"
    /\ UNCHANGED <<time, evmVars, priceVars, poll, host, delivered, suiVars, loopVars, batch, cur, errLog,
                   fetchedVaas, settleTxs, timedOut>>

\* processIntent up to the profitability gate: the price at the host's clock in ms
processIntent_price ==
    /\ pc = "logs"
    /\ batch # <<>>
    /\ \E skew \in Skews :
          LET intent_id == Head(batch)
              args == intents[intent_id]
              currentTime == (time + skew) * 1000
              requiredAmountRaw == calculateCurrentPrice(args.start_output_amount,
                                       args.min_output_amount, args.start_time,
                                       args.duration, currentTime)
          IN  IF NotProfitableB(args.input_balance, requiredAmountRaw)
              THEN pc' = "logs" /\ cur' = NoOrder
              ELSE /\ pc' = "solve"
                   /\ cur' = [orderId |-> intent_id, requiredSuiRaw |-> requiredAmountRaw,
                              seq |-> 0, attempts |-> 0]
    /\ batch' = Tail(batch)
    /\ delivered' = delivered \cup {Head(batch)}
    /\ UNCHANGED <<time, evmVars, priceVars, poll, host, suiVars, loopVars, errLog, fetchedVaas,
                   settleTxs, timedOut>>

processIntent_fulfill_paysWhatItHas ==
    /\ pc = "solve"
    /\ LET totalValue == cur.requiredSuiRaw + MessageFee
       IN  IF ethBal[Solver] >= totalValue
           THEN /\ fulfillOrder(Solver, cur.orderId, User, Solver, cur.requiredSuiRaw, totalValue)
                /\ cur' = [cur EXCEPT !.seq = Len(whMsgs) + 1]
                /\ pc' = "parse"
                /\ UNCHANGED errLog
           ELSE /\ LogError(cur.orderId)
                /\ cur' = NoOrder
                /\ pc' = "logs"
                /\ ethBal' = [ethBal EXCEPT ![Solver] = 0, ![User] = @ + ethBal[Solver]]
                /\ UNCHANGED <<lastErr, whMsgs>>
    /\ UNCHANGED <<time, ledger, priceVars, poll, host, delivered, suiBal, intents, signedVaas, loopVars, batch,
                   fetchedVaas, settleTxs, timedOut>>

\* processIntent: the fulfillOrder transaction with value = required amount +
\* fee; a sender that does not hold the value has its transaction refused,
\* which processIntent logs
processIntent_fulfill ==
    /\ pc = "solve"
    /\ LET totalValue == cur.requiredSuiRaw + MessageFee
       IN  IF ethBal[Solver] >= totalValue
           THEN /\ fulfillOrder(Solver, cur.orderId, User, Solver, cur.requiredSuiRaw, totalValue)
                /\ cur' = [cur EXCEPT !.seq = Len(whMsgs) + 1]
                /\ pc' = "parse"
                /\ UNCHANGED errLog
           ELSE /\ LogError(cur.orderId)
                /\ cur' = NoOrder
                /\ pc' = "logs"
                /\ UNCHANGED <<lastErr, ethBal, whMsgs>>
    /\ UNCHANGED <<time, ledger, priceVars, poll, host, delivered, suiBal, intents, signedVaas, loopVars, batch,
                   fetchedVaas, settleTxs, timedOut>>

\* processIntent: claim_intent is sent with the fetched VAA; a failure is logged
processIntent_claim ==
    /\ pc = "settle"
    /\ claim_intent(Solver, cur.orderId, VaaOf(cur.seq, cur.seq \in fetchedVaas))
    /\ settleTxs' = settleTxs \cup {[orderId |-> cur.orderId, seq |-> cur.seq]}
    /\ IF lastErr' # "ok" THEN LogError(cur.orderId) ELSE UNCHANGED errLog
    /\ cur' = NoOrder
    /\ pc' = "logs"
    /\ UNCHANGED <<time, ledger, priceVars, poll, host, delivered, ethBal, whMsgs, signedVaas, loopVars, batch,
                   fetchedVaas, timedOut>>

InitB ==
    /\ time = 0
    /\ EvmInit
    /\ PriceIdle
    /\ suiBal = [a \in Accounts |-> IF a = User THEN 2 * MIN_PROFIT_MIST ELSE 0]
    /\ ethBal = [a \in Accounts |-> IF a = Solver THEN SolverFunds ELSE 0]
    /\ intents = <<>>
    /\ whMsgs = <<>>
    /\ signedVaas = {}
    /\ SolverIdle
    /\ PollIdle
    /\ HostIdle

NextB ==
    \/ UserCreateIntent
    \/ VaultTick
    \/ GuardianSign
    \/ mainB_start
    \/ mainB_poll
    \/ main_pollError
    \/ mainB_endLogs
    \/ processIntent_price
    \/ processIntent_fulfill
    \/ fetchVAA_parse
    \/ fetchVAA_getVaa
    \/ fetchVAA_timeout
    \/ processIntent_claim

SpecB == InitB /\ [][NextB]_vars

\* C1: the solver submits at most one fulfillment per order, however often the
\* order's creation event is delivered to it.
C1_FulfilledOncePerOrder ==
    \A intent_id \in 1..Len(intents) : Cardinality(MessagesFor(intent_id)) <= 1

\* ------------------------------------- the attestation polling and parse loops

MaxPolls == 121     \* iterations followed of a loop that has no limit of its own

bot_maxRetries == 30
bot_retryMs == 2000
logic_maxAttempts == 30
logic_retryMs == 2000
claim_retryMs == 5000
maxRetries == 60
retryDelay == 3000
timeoutMs == 600000
PARSE_SLEEP_MS == 5000

\* what the guardian API answers: the signed VAA, a body without vaaBytes, or a
\* failed request (404, network error)
Responses == {"value", "absent", "error"}
\* what chain.parseTransaction does: messages, an empty list, or an exception
ParseResults == {"found", "empty", "throws"}

VaaLoops == {"solver-bot", "part_013", "part_012", "solver-integration", "fetchVAA"}
ParseLoops == {"fetchVAA.parse", "solve-evm-to-sui.parse"}

Polling(script) == poll.script = script /\ poll.status = "polling"

PollFrame ==
    UNCHANGED <<time, evmVars, priceVars, suiVars, solverVars, delivered, host>>

\* one more attempt that did not end the loop, after a sleep of ms
Slept(resp, ms) ==
    [poll EXCEPT !.attempts = @ + 1, !.elapsed = @ + ms, !.last = resp]

Ended(resp, status) == [poll EXCEPT !.status = status, !.last = resp]

fetchVaaAndSettle_poll_absentIsError ==
    /\ Polling("solver-bot")
    /\ \E resp \in Responses :
          poll' = IF resp = "value" THEN Ended(resp, "got")
                  ELSE IF resp = "absent" THEN Ended(resp, "timeout")
                  ELSE IF poll.attempts + 1 = bot_maxRetries
                  THEN [Slept(resp, bot_retryMs) EXCEPT !.status = "timeout"]
                  ELSE Slept(resp, bot_retryMs)
    /\ PollFrame

\* SolverBot.fetchVaaAndSettle: one iteration of the for loop, and the check
\* after the loop when it was the last
fetchVaaAndSettle_poll ==
    /\ Polling("solver-bot")
    /\ \E resp \in Responses :
          poll' = IF resp = "value" THEN Ended(resp, "got")
                  ELSE IF poll.attempts + 1 = bot_maxRetries
                  THEN [Slept(resp, bot_retryMs) EXCEPT !.status = "timeout"]
                  ELSE Slept(resp, bot_retryMs)
    /\ PollFrame

\* processLogic (part_013): one iteration of the while loop. The base64
\* vaaBytes of a response is handed to ethers.getBytes as "0x" + base64, which
\* throws inside the try, so a response with a value is caught like a failed
\* request.
processLogic_poll ==
    /\ Polling("part_013")
    /\ \E resp \in Responses :
          poll' = IF poll.attempts + 1 = logic_maxAttempts
                  THEN [Slept(resp, logic_retryMs) EXCEPT !.status = "timeout"]
                  ELSE Slept(resp, logic_retryMs)
    /\ PollFrame

\* main (part_012): one iteration of while (!vaaBytes); the loop has no limit
claim_poll ==
    /\ Polling("part_012")
    /\ poll.attempts < MaxPolls
    /\ \E resp \in Responses :
          poll' = IF resp = "value"
                  THEN [Slept(resp, claim_retryMs) EXCEPT !.status = "got"]
                  ELSE Slept(resp, claim_retryMs)
    /\ PollFrame

\* main (solver-integration.ts, Sui -> EVM settlement script): one iteration of
\* the for loop; the delay is in the catch block only
settle_poll ==
    /\ Polling("solver-integration")
    /\ \E resp \in Responses :
          LET next == IF resp = "error" THEN Slept(resp, retryDelay) ELSE Slept(resp, 0)
          IN  poll' = IF resp = "value" THEN Ended(resp, "got")
                      ELSE IF poll.attempts + 1 = maxRetries
                      THEN [next EXCEPT !.status = "timeout"]
                      ELSE next
    /\ PollFrame

\* fetchVAA: wh.getVaa(message, "Uint8Array", timeoutMs) returns the VAA within
\* the timeout, or null when the timeout has passed
fetchVAA_wait ==
    /\ Polling("fetchVAA")
    /\ \E resp \in {"value", "absent"} :
          poll' = IF resp = "value" THEN Ended(resp, "got")
                  ELSE [Ended(resp, "timeout") EXCEPT !.elapsed = timeoutMs]
    /\ PollFrame

\* fetchVAA: one parseTransaction of the retry loop, or the last try after it
fetchVAA_parseLoop ==
    /\ Polling("fetchVAA.parse")
    /\ \E r \in ParseResults :
          poll' = IF r = "found" THEN [Slept(r, 0) EXCEPT !.status = "got"]
                  ELSE IF poll.attempts < PARSE_ATTEMPTS
                  THEN (IF r = "throws" THEN Slept(r, PARSE_SLEEP_MS) ELSE Slept(r, 0))
                  ELSE [Slept(r, 0) EXCEPT !.status = "failed"]
    /\ PollFrame

\* solve-evm-to-sui.ts: parseTransaction, retried once after a delay when it throws
solveEvmToSui_parse ==
    /\ Polling("solve-evm-to-sui.parse")
    /\ \E r \in ParseResults :
          poll' = IF r = "found" THEN [Slept(r, 0) EXCEPT !.status = "got"]
                  ELSE IF r = "throws" /\ poll.attempts = 0 THEN Slept(r, PARSE_SLEEP_MS)
                  ELSE [Slept(r, 0) EXCEPT !.status = "failed"]
    /\ PollFrame

PollInit ==
    /\ time = 0
    /\ EvmInit
    /\ PriceIdle
    /\ SuiIdle
    /\ SolverIdle
    /\ poll \in {[NoPoll EXCEPT !.script = script, !.status = "polling"] :
                   script \in VaaLoops \cup ParseLoops}
    /\ HostIdle

PollNext ==
    \/ fetchVaaAndSettle_poll
    \/ processLogic_poll
    \/ claim_poll
    \/ settle_poll
    \/ fetchVAA_wait
    \/ fetchVAA_parseLoop
    \/ solveEvmToSui_parse

PollSpec == PollInit /\ [][PollNext]_vars

\* the retry budget of the loops that have one
RetryBudget(script) ==
    IF script = "solver-bot" THEN bot_maxRetries
    ELSE IF script = "part_013" THEN logic_maxAttempts
    ELSE maxRetries

\* C11: in SolverBot.fetchVaaAndSettle and in processLogic's polling loop an
\* absent response (a body without vaaBytes, or a failed request) never ends
\* the polling: after such a response with budget left the loop is still
\* polling, the loop gives up only with its retry budget used up, and it
\* reports a VAA only when the last response carried one.
C11_AbsentIsNotAnError ==
    poll.script \in {"solver-bot", "part_013"} =>
        /\ (poll.last \in {"absent", "error"} /\ poll.attempts < RetryBudget(poll.script))
              => poll.status = "polling"
        /\ poll.status = "timeout" => poll.attempts = RetryBudget(poll.script)
        /\ poll.status = "got" => poll.last = "value"

\* the bot got its VAA after responses that carried none
C11_Witness ==
    /\ poll.script = "solver-bot"
    /\ poll.attempts >= 2
    /\ poll.status = "got"

\* C12: when the attestation service never returns a value, the fetch gives up
\* exactly at the configured boundary, neither earlier nor later: the time
\* spent waiting when the loop gives up is maxRetries x interval for the
\* counted loops (30 x 2 s in solver-bot.ts, 60 x 3 s in
\* solver-integration.ts) and timeoutMs for fetchVAA, and no loop is still
\* polling once that time has passed.
C12_GivesUpAtBoundary ==
    /\ (poll.script = "solver-bot" /\ poll.status = "timeout")
          => poll.elapsed = bot_maxRetries * bot_retryMs
    /\ (poll.script = "solver-integration" /\ poll.status = "timeout")
          => poll.elapsed = maxRetries * retryDelay
    /\ (poll.script = "fetchVAA" /\ poll.status = "timeout")
          => poll.elapsed = timeoutMs
    /\ (poll.script = "solver-bot" /\ poll.status = "polling")
          => poll.elapsed < bot_maxRetries * bot_retryMs
    /\ (poll.script = "solver-integration" /\ poll.status = "polling")
          => poll.elapsed < maxRetries * retryDelay

\* C13: every attestation polling loop is bounded by an explicit timeout and
\* ends with an attestation or with a timeout failure, also when the service
\* never returns a value: no loop is still polling after more waiting than the
\* longest timeout any of the scripts configures (timeoutMs, 600 s).
C13_EveryWaitBounded ==
    (poll.script \in VaaLoops /\ poll.status = "polling") => poll.elapsed <= timeoutMs

\* C14: parsing the fulfillment transaction is retried a bounded number of
\* times with a fixed delay between consecutive attempts, and failure is
\* declared only after all attempts yielded no message: every attempt but the
\* last is followed by the delay (PARSE_SLEEP_MS), and a loop that has failed
\* has made all its attempts (the 5 of the loop and the last try in fetchVAA,
\* the try and its retry in solve-evm-to-sui.ts).
C14_ParseRetriedWithDelay ==
    poll.script \in ParseLoops =>
        /\ poll.status = "polling" => poll.elapsed = PARSE_SLEEP_MS * poll.attempts
        /\ poll.status \in {"got", "failed"} => poll.elapsed = PARSE_SLEEP_MS * (poll.attempts - 1)
        /\ (poll.script = "fetchVAA.parse" /\ poll.status = "failed")
              => poll.attempts = PARSE_ATTEMPTS + 1
        /\ (poll.script = "solve-evm-to-sui.parse" /\ poll.status = "failed")
              => poll.attempts = 2

\* ------------------------------------------ the profitability gate (Spec)

\* C15, as stated: an order is accepted for fulfillment only if its estimated
\* profit exceeds the minimum threshold: the order the solver is fulfilling,
\* and every order it has paid for, has a profit strictly above MIN_PROFIT_USDC
\* at the amount the solver computed.
C15_AsStated ==
    /\ InPipeline =>
          orders[cur.orderId].inputAmount * 1000 - cur.requiredSuiRaw * MOCK_SUI_PRICE_USDC
              > MIN_PROFIT_USDC_RAW * 1000
    /\ \A k \in 1..Len(whMsgs) :
          orders[whMsgs[k].orderId].inputAmount * 1000 - whMsgs[k].amount * MOCK_SUI_PRICE_USDC
              > MIN_PROFIT_USDC_RAW * 1000

\* C15, amended: an order is accepted for fulfillment only if its estimated
\* profit is at least the minimum threshold (the gate rejects on
\* potentialProfit < MIN_PROFIT_USDC); an order that does not pass is skipped:
\* it never enters the pipeline and no payment is made for it.
C15_ProfitAtLeastThreshold ==
    /\ InPipeline =>
          ~NotProfitable(orders[cur.orderId].inputAmount, cur.requiredSuiRaw)
    /\ \A k \in 1..Len(whMsgs) :
          ~NotProfitable(orders[whMsgs[k].orderId].inputAmount, whMsgs[k].amount)

\* an order was paid for with a profit of exactly the threshold
C15_Witness ==
    \E k \in 1..Len(whMsgs) :
        orders[whMsgs[k].orderId].inputAmount * 1000 - whMsgs[k].amount * MOCK_SUI_PRICE_USDC
            = MIN_PROFIT_USDC_RAW * 1000

\* C16: while an order remains open its profitability is re-evaluated: an
\* order that was rejected as unprofitable (handed to processOrder, not paid
\* for, no error logged), that is still PENDING and that is profitable at the
\* amount required now, is one the solver is still going to look at, i.e. it
\* is among the logs in hand or in the blocks the next getLogs will read.
C16_RejectedOrderReevaluated ==
    \A id \in delivered :
        ( /\ orders[id].status = "PENDING"
          /\ ~(InPipeline /\ cur.orderId = id)
          /\ MessagesFor(id) = {}
          /\ [where |-> "order", orderId |-> id] \notin errLog
          /\ ~NotProfitable(orders[id].inputAmount,
                            calculateCurrentPrice(orders[id].startOutputAmount,
                                orders[id].minOutputAmount, orders[id].startTime,
                                orders[id].duration, time)) )
        => \/ \E i \in 1..Len(batch) : batch[i] = id
           \/ orders[id].startTime >= lastBlock

\* ------------------------------------------ settlement failures (Spec)

\* C17: when the settlement is rejected on-chain the order fails for good and
\* the solver never resubmits it: an order whose settlement the solver has
\* submitted is no longer in the solver's hands (not the order in the
\* pipeline, not among the logs still to process, not in the blocks the next
\* getLogs reads), and when the ledger rejected it the failure is in the log.
C17_NoResubmission ==
    \A t \in settleTxs :
        /\ ~(InPipeline /\ cur.orderId = t.orderId)
        /\ \A i \in 1..Len(batch) : batch[i] # t.orderId
        /\ pc = "poll" => orders[t.orderId].startTime < lastBlock
        /\ orders[t.orderId].status # "SETTLED"
              => [where |-> "order", orderId |-> t.orderId] \in errLog

\* a settlement was rejected (bid below the required amount), the order is
\* still open, and the solver polls on
C17_Witness ==
    /\ pc = "poll"
    /\ lastErr = "BidTooLow"
    /\ \E t \in settleTxs :
          /\ orders[t.orderId].status = "PENDING"
          /\ [where |-> "order", orderId |-> t.orderId] \in errLog

\* C18: a transient network or RPC error while the settlement is submitted is
\* retryable and the order stays in its current stage: a step taken while the
\* order is at the settlement stage and that puts no settlement transaction
\* on the chain leaves the order at that stage, in the solver's hands.
C18_RpcErrorKeepsStage ==
    [][(pc = "settle" /\ settleTxs' = settleTxs) => (pc' = "settle" /\ cur' = cur)]_vars

\* ------------------------------------------ restart and startup

\* C19: restarting the solver while an order is fulfilled and still awaiting
\* its attestation does not lead to a second fulfillment payment for it: once
\* the solver has been started again, no fulfillment is submitted for an order
\* that already has one and whose claim has neither been submitted nor failed.
C19_NoSecondPaymentAfterRestart ==
    [][(starts > 1 /\ Len(whMsgs') = Len(whMsgs) + 1)
          => LET id == whMsgs'[Len(whMsgs')].orderId
             IN  ~ /\ MessagesFor(id) # {}
                   /\ \A t \in settleTxs : t.orderId # id
                   /\ [where |-> "order", orderId |-> id] \notin errLog]_vars

\* C20: at startup the solver scans the backlog of creation events, so that
\* every order created while it was offline and still open is delivered to
\* the pipeline: when the solver has started and has not read any logs yet,
\* every order that is PENDING on the ledger lies in the blocks its first
\* getLogs is going to read.
C20_BacklogScanned ==
    (starts > 0 /\ currentBlock = 0) =>
        \A id \in 0..(nextOrderId - 1) :
            orders[id].status = "PENDING" => orders[id].startTime >= lastBlock

\* ------------------------------------- the self-hosted solver (Sui -> EVM)

MaxHostIntents == 2     \* IntentCreated events the self-hosted solver sees

\* the environment variables main and startEventListener look at
EnvNames == {"PRIVATE_KEY_EVM", "PRIVATE_KEY_SUI", "PACKAGE_ID_SUI", "SOLVER_CONFIG_ID"}

\* processIntent: sendEthOnBaseSepolia throws, claimIntentOnSui throws, or both succeed
HostOutcomes == {"ok", "sendFails", "claimFails"}

HostFrame ==
    UNCHANGED <<time, evmVars, priceVars, suiVars, solverVars, delivered, poll>>

\* processIntent of the self-hosted solver: ETH is sent, then the intent is
\* claimed; whatever is thrown is logged. The claim of an intent whose object
\* is gone fails, and so does a claim that names no solver config object.
host_processIntent(h, id, o) ==
    IF o = "sendFails" THEN [h EXCEPT !.log = @ \cup {"intent"}]
    ELSE IF o = "ok" /\ id \notin h.claimed /\ "SOLVER_CONFIG_ID" \in h.cfg
    THEN [h EXCEPT !.paid[id] = @ + 1, !.claimed = @ \cup {id}]
    ELSE [h EXCEPT !.paid[id] = @ + 1, !.log = @ \cup {"intent"}]

\* the for loops over events: processIntent for ids[1], ids[2], ... in turn
RECURSIVE host_processAll(_, _, _)
host_processAll(h, ids, outs) ==
    IF ids = <<>> THEN h
    ELSE host_processAll(host_processIntent(h, Head(ids), outs[Head(ids)]), Tail(ids), outs)

\* a user creates an intent on Sui: one more IntentCreated event
host_createIntent ==
    /\ host.stage # "off"
    /\ host.events < MaxHostIntents
    /\ host' = [host EXCEPT !.events = @ + 1, !.paid = Append(@, 0)]
    /\ HostFrame

\* main up to scanForPendingIntents: the two private keys are required; a
\* failing balance query rejects main, and main().catch exits
host_main ==
    /\ host.stage = "main"
    /\ \E rpcOk \in BOOLEAN :
          host' = IF ~({"PRIVATE_KEY_EVM", "PRIVATE_KEY_SUI"} \subseteq host.cfg)
                  THEN [host EXCEPT !.stage = "exited"]
                  ELSE IF ~rpcOk THEN [host EXCEPT !.stage = "exited", !.log = @ \cup {"fatal"}]
                  ELSE [host EXCEPT !.stage = "scan"]
    /\ HostFrame

\* scanForPendingIntents: all IntentCreated events are read and the intents
\* whose object still exists are processed; a failing query is logged
host_scan ==
    /\ host.stage = "scan"
    /\ \E queryOk \in BOOLEAN, outs \in [1..host.events -> HostOutcomes] :
          /\ "PACKAGE_ID_SUI" \notin host.cfg => ~queryOk
          /\ LET pending == SelectSeq([i \in 1..host.events |-> i],
                                      LAMBDA id : id \notin host.claimed)
                 h == IF queryOk THEN host_processAll(host, pending, outs)
                      ELSE [host EXCEPT !.log = @ \cup {"scan"}]
             IN  host' = [h EXCEPT !.stage = "listen"]
    /\ HostFrame

host_startEventListener_noFallback ==
    /\ host.stage = "listen"
    /\ \E subOk \in BOOLEAN :
          host' = IF ~({"PACKAGE_ID_SUI", "SOLVER_CONFIG_ID"} \subseteq host.cfg)
                  THEN [host EXCEPT !.stage = "exited"]
                  ELSE IF subOk
                  THEN [host EXCEPT !.stage = "subscribed", !.sub = "ok", !.cursor = host.events]
                  ELSE [host EXCEPT !.stage = "exited", !.sub = "failed"]
    /\ HostFrame

\* startEventListener and the catch of main: a missing package or config id
\* exits; subscribeEvent succeeds, or it throws and startPollingMode begins
\* with lastCursor = null
host_startEventListener ==
    /\ host.stage = "listen"
    /\ \E subOk \in BOOLEAN :
          host' = IF ~({"PACKAGE_ID_SUI", "SOLVER_CONFIG_ID"} \subseteq host.cfg)
                  THEN [host EXCEPT !.stage = "exited"]
                  ELSE IF subOk
                  THEN [host EXCEPT !.stage = "subscribed", !.sub = "ok", !.cursor = host.events]
                  ELSE [host EXCEPT !.stage = "polling", !.sub = "failed", !.cursor = 0]
    /\ HostFrame

\* onMessage: an event created after the subscription is delivered
host_onMessage ==
    /\ host.stage = "subscribed"
    /\ host.cursor < host.events
    /\ \E o \in HostOutcomes :
          host' = [host_processIntent(host, host.cursor + 1, o) EXCEPT !.cursor = host.cursor + 1]
    /\ HostFrame

\* the SIGINT handler registered once the subscription stands
host_sigint ==
    /\ host.stage = "subscribed"
    /\ host' = [host EXCEPT !.stage = "stopped"]
    /\ HostFrame

\* poll of startPollingMode: the events after lastCursor (all of them while
\* it is null) are processed and lastCursor moves to the last one; a failing
\* query is logged
host_poll ==
    /\ host.stage = "polling"
    /\ \E queryOk \in BOOLEAN, outs \in [1..host.events -> HostOutcomes] :
          host' = IF queryOk
                  THEN [host_processAll(host, [i \in 1..(host.events - host.cursor) |-> host.cursor + i], outs)
                           EXCEPT !.cursor = host.events]
                  ELSE [host EXCEPT !.log = @ \cup {"poll"}]
    /\ HostFrame

HostInit ==
    /\ time = 0
    /\ EvmInit
    /\ PriceIdle
    /\ SuiIdle
    /\ SolverIdle
    /\ PollIdle
    /\ host \in {[NoHost EXCEPT !.stage = "main", !.cfg = cfg] : cfg \in SUBSET EnvNames}

HostNext ==
    \/ host_createIntent
    \/ host_main
    \/ host_scan
    \/ host_startEventListener
    \/ host_onMessage
    \/ host_sigint
    \/ host_poll

HostSpec == HostInit /\ [][HostNext]_vars

\* C21: when the live event subscription fails the solver falls back to
\* polling mode and keeps running: after a failed subscribeEvent the process
\* is in polling mode, never exited.
C21_FallsBackToPolling == host.sub = "failed" => host.stage = "polling"

\* the subscription failed and the polling mode has since processed an intent
C21_Witness ==
    /\ host.sub = "failed"
    /\ host.stage = "polling"
    /\ host.cursor > 0
    /\ \E id \in 1..host.events : host.paid[id] > 0

\* ------------------------------------------ failures of the order source

\* C22: a failed poll of the order source is logged and retried without
\* advancing the poll position: the step that logs a polling error leaves
\* lastBlock, the event cursor and the logs in hand as they were, and the loop
\* goes on polling.
C22_FailedPollKeepsPosition ==
    [][([where |-> "main", orderId |-> -1] \in errLog' /\ [where |-> "main", orderId |-> -1] \notin errLog)
          => /\ lastBlock' = lastBlock
             /\ nextCursor' = nextCursor
             /\ batch' = batch
             /\ pc' = "poll"]_vars

\* a poll has failed, an order was delivered, and the loop polls on
C22_Witness ==
    /\ [where |-> "main", orderId |-> -1] \in errLog
    /\ delivered # {}
    /\ pc = "poll"

\* C23: orders are processed concurrently and independently: while one order
\* waits for its attestation, the detection of other orders is not delayed,
\* i.e. when blocks have appeared since the last getLogs, main can read their
\* logs although an order is in fetchVAA.
C23_WaitDoesNotDelayDetection ==
    (pc = "getVaa" /\ time > currentBlock) => ENABLED main_poll

\* ------------------------------------------ the fulfillment transaction

\* C24: a fulfillment carries the order identifier, the recipient, the
\* solver's identity and the paid amount, and the amount recorded in the
\* cross-chain message equals the amount the transaction transferred to the
\* recipient: the step that publishes a message publishes the id of the order
\* in hand and the solver's address, and its amount is what the recipient's
\* balance grew by in that step.
C24_MessageMatchesPayment ==
    [][Len(whMsgs') = Len(whMsgs) + 1
          => LET m == whMsgs'[Len(whMsgs')]
             IN  /\ m.orderId = cur.orderId
                 /\ m.solverAddress = Solver
                 /\ m.amount = (suiBal'[User] - suiBal[User]) + (ethBal'[User] - ethBal[User])]_vars

\* the solver paid less than it held, and the message records what it paid
C24_Witness ==
    /\ Len(whMsgs) = 1
    /\ whMsgs[1].amount > 0
    /\ suiBal[User] = whMsgs[1].amount
    /\ suiBal[Solver] > 0

\* C25: a fulfillment is rejected without paying when, at submission time,
\* the solver's balance cannot cover the required amount plus the message
\* fee: the step the running solver takes from the fulfillment stage with
\* too small a balance moves no ETH, publishes no message, logs the failure and drops the order.
C25_RejectedWithoutPaying ==
    [][(pc = "solve" /\ pc' # "solve" /\ starts' = starts
           /\ ethBal[Solver] < cur.requiredSuiRaw + MessageFee)
          => /\ ethBal' = ethBal
             /\ whMsgs' = whMsgs
             /\ [where |-> "order", orderId |-> cur.orderId] \in errLog'
             /\ pc' = "logs"]_vars

\* an order was profitable, the solver could not afford it, and nothing was paid
C25_Witness ==
    /\ pc = "logs"
    /\ delivered # {}
    /\ \E id \in delivered : [where |-> "order", orderId |-> id] \in errLog
    /\ whMsgs = <<>>
    /\ ethBal[Solver] = SolverFunds
    /\ ethBal[User] = 0

\* ------------------------------------------ the orders of the ledger

\* C26: every order that exists has floorPrice <= startPrice and
\* duration > 0.
C26_OrdersWellFormed ==
    \A id \in 0..(nextOrderId - 1) :
        /\ orders[id].minOutputAmount <= orders[id].startOutputAmount
        /\ orders[id].duration > 0

\* ------------------------------------------ fulfillOrder on its own

MaxFulfills == 2     \* fulfillOrder calls that publish a message

\* anyone calls fulfillOrder with any amount and any value it holds; the call
\* and what it returned (the sequence of the published message, 0 when it
\* reverted) are kept
BridgeFulfill ==
    /\ Len(whMsgs) < MaxFulfills
    /\ \E sender \in Accounts \ {Vault}, recipient \in Accounts, solverSuiAddress \in Solvers,
          amount \in 0..MaxAmount, msgValue \in 0..(MaxAmount + MessageFee) :
          /\ fulfillOrder(sender, 1, recipient, solverSuiAddress, amount, msgValue)
          /\ px' = [sender |-> sender, recipient |-> recipient, amount |-> amount,
                    msgValue |-> msgValue, before |-> ethBal, published |-> Len(whMsgs)]
    /\ pxOut' = [sequence |-> IF lastErr' = "ok" THEN Len(whMsgs') ELSE 0]
    /\ UNCHANGED <<time, ledger, suiBal, intents, signedVaas, solverVars, delivered, poll, host>>

BridgeInit ==
    /\ time = 0
    /\ EvmInit
    /\ PriceIdle
    /\ suiBal = [a \in Accounts |-> 0]
    /\ ethBal = [a \in Accounts |-> IF a = Solver THEN MaxAmount + MessageFee ELSE 0]
    /\ intents = <<>>
    /\ whMsgs = <<>>
    /\ signedVaas = {}
    /\ SolverIdle
    /\ PollIdle
    /\ HostIdle

BridgeNext == BridgeFulfill

BridgeSpec == BridgeInit /\ [][BridgeNext]_vars

ConfigNames ==
    {"PRIVATE_KEY_EVM", "PRIVATE_KEY_SUI", "EVM_INTENT_VAULT_ADDRESS", "SUI_PACKAGE_ID",
     "SOLVER_STATE_ID", "WORMHOLE_STATE_ID", "SOLVER_CONFIG_ID", "SUI_EMITTER_CAP_ID"}

\* solver_evm_to_sui and solver_sui_to_evm (both import solvers/utils.ts),
\* solve-evm-to-sui.ts, solver-bot.ts
Scripts == {"solver_evm_to_sui", "solver_sui_to_evm", "solve-evm-to-sui", "solver-bot"}

\* what the script checks, or cannot construct its wallets without, before
\* it listens for orders
CheckedAtStart(script) ==
    IF script \in {"solver_evm_to_sui", "solver_sui_to_evm"}
    THEN {"PRIVATE_KEY_EVM", "PRIVATE_KEY_SUI", "EVM_INTENT_VAULT_ADDRESS", "SUI_PACKAGE_ID"}
    ELSE IF script = "solve-evm-to-sui"
    THEN {"PRIVATE_KEY_EVM", "PRIVATE_KEY_SUI", "EVM_INTENT_VAULT_ADDRESS", "SOLVER_STATE_ID"}
    ELSE {"PRIVATE_KEY_EVM", "PRIVATE_KEY_SUI"}

\* what the fulfillment transaction of the script names
UsedByFulfillment(script) ==
    IF script = "solver_sui_to_evm"
    THEN {"PRIVATE_KEY_EVM", "PRIVATE_KEY_SUI", "EVM_INTENT_VAULT_ADDRESS"}
    ELSE {"PRIVATE_KEY_SUI", "SUI_PACKAGE_ID", "SOLVER_STATE_ID", "WORMHOLE_STATE_ID"}

\* what fetching the attestation and settling names
UsedBySettlement(script) ==
    IF script = "solver_sui_to_evm"
    THEN {"PRIVATE_KEY_SUI", "SUI_PACKAGE_ID", "SOLVER_CONFIG_ID", "WORMHOLE_STATE_ID"}
    ELSE IF script = "solver-bot"
    THEN {"PRIVATE_KEY_EVM", "EVM_INTENT_VAULT_ADDRESS", "SUI_EMITTER_CAP_ID"}
    ELSE {"PRIVATE_KEY_EVM", "EVM_INTENT_VAULT_ADDRESS"}

\* every identifier the script needs to take an order to its settlement
RequiredNames(script) ==
    CheckedAtStart(script) \cup UsedByFulfillment(script) \cup UsedBySettlement(script)

ConfigFrame ==
    UNCHANGED <<time, evmVars, priceVars, suiVars, solverVars, delivered, poll>>

\* the start of the script: the module-level check of utils.ts, the check in
\* main of solve-evm-to-sui.ts, the wallet and keypair constructors
config_start ==
    /\ host.stage = "main"
    /\ host' = IF CheckedAtStart(host.script) \subseteq host.cfg
               THEN [host EXCEPT !.stage = "running"]
               ELSE [host EXCEPT !.stage = "exited"]
    /\ ConfigFrame

\* an order arrives at the running script: the fulfillment is paid when the
\* transaction can be built and the chain accepts it, then the settlement is
\* made when it can be; every failure is logged
config_order ==
    /\ host.stage = "running"
    /\ host.orders < MaxOrders
    /\ \E payOk \in BOOLEAN, settleOk \in BOOLEAN :
          LET paid == payOk /\ UsedByFulfillment(host.script) \subseteq host.cfg
              settled == paid /\ settleOk /\ UsedBySettlement(host.script) \subseteq host.cfg
          IN  host' = [host EXCEPT !.orders = @ + 1,
                                   !.paid = @ + (IF paid THEN 1 ELSE 0),
                                   !.settled = @ + (IF settled THEN 1 ELSE 0),
                                   !.log = IF settled THEN @ ELSE @ \cup {"order"}]
    /\ ConfigFrame

ConfigInit ==
    /\ time = 0
    /\ EvmInit
    /\ PriceIdle
    /\ SuiIdle
    /\ SolverIdle
    /\ PollIdle
    /\ host \in {[script |-> script, cfg |-> cfg, stage |-> "main", orders |-> 0, paid |-> 0,
                  settled |-> 0, log |-> {}] : script \in Scripts, cfg \in SUBSET ConfigNames}

ConfigNext ==
    \/ config_start
    \/ config_order

ConfigSpec == ConfigInit /\ [][ConfigNext]_vars

\* C28: if any required identifier or address is missing at startup, the
\* solver process refuses to start and processes no order: a script that
\* lacks one of the identifiers it needs never runs and never pays.
C28_RefusesToStart ==
    ~(RequiredNames(host.script) \subseteq host.cfg)
        => (host.stage \in {"main", "exited"} /\ host.orders = 0 /\ host.paid = 0)

\* the fulfillment records the solver holds: the digest of the Sui payment is
\* a local of the processOrder call that made it, and nothing outlives the call
FulfillmentRecords ==
    IF InPipeline /\ cur.seq # 0
    THEN {[orderId |-> cur.orderId, seq |-> cur.seq]}
    ELSE {}

\* C29: no error causes silent fund loss: after a failure that follows the
\* fulfillment payment and precedes the settlement, the solver retains the
\* fulfillment record (order id and fulfillment transaction) of the order, from
\* which the order can be resumed.
C29_FailedOrderKeepsRecord ==
    \A k \in 1..Len(whMsgs) :
        (/\ orders[whMsgs[k].orderId].status = "PENDING"
         /\ [where |-> "order", orderId |-> whMsgs[k].orderId] \in errLog)
            => [orderId |-> whMsgs[k].orderId, seq |-> k] \in FulfillmentRecords

\* ------------------------------- the release of locked collateral on its own

\* the call made last: who sent it, the VAA it carried, the balances it found
CallRecord(call, caller, vm) ==
    [call |-> call, caller |-> caller, vm |-> vm, usdc |-> usdcBal, sui |-> suiBal,
     intents |-> intents]

NoVaa == [valid |-> FALSE, solverAddress |-> "none"]

\* VAAs a caller can hand to claim_intent in the current second: messages of
\* the bridge contract with any payload, and one with a bad signature
ClaimVaas ==
    [valid : BOOLEAN, emitterChainId : {BASE_SEPOLIA_CHAIN_ID}, emitterAddress : {EvmEmitter},
     orderId : 1..MaxOrders, solverAddress : Solvers, amountPaidBySolver : {0, MaxAmount},
     timestamp : {time}]

ReleaseFrame ==
    UNCHANGED <<time, pxOut, ethBal, whMsgs, signedVaas, solverVars, delivered, poll, host>>

\* the user locks collateral in a decaying or in a flat auction
ReleaseAuctions == {<<MaxAmount, 1, MaxDuration>>, <<MaxAmount, MaxAmount, 1>>}

ReleaseCreateOrder ==
    /\ \E a \in ReleaseAuctions : createOrder(User, MIN_PROFIT_USDC_RAW, a[1], a[2], a[3])
    /\ px' = CallRecord("createOrder", User, NoVaa)
    /\ UNCHANGED <<suiBal, intents>>
    /\ ReleaseFrame

\* anyone submits settleOrder with a VAA stamped in the current second that
\* reports no payment or the highest one
ReleaseSettle ==
    /\ \E sender \in Accounts \ {Vault}, vm \in VaaInputs :
          /\ vm.timestamp = time
          /\ vm.amountPaidBySolver \in {0, MaxAmount}
          /\ SettleTx(vm)
          /\ px' = CallRecord("settleOrder", sender, vm)
    /\ UNCHANGED <<suiBal, intents>>
    /\ ReleaseFrame

ReleaseCreateIntent ==
    /\ \E a \in ReleaseAuctions : create_intent(User, MIN_PROFIT_MIST, a[1], a[2], a[3] * 1000)
    /\ px' = CallRecord("create_intent", User, NoVaa)
    /\ UNCHANGED ledger
    /\ ReleaseFrame

\* anyone calls claim_intent on an intent with a VAA
ReleaseClaim ==
    /\ \E caller \in Accounts \ {Vault}, vm \in ClaimVaas :
          /\ claim_intent(caller, vm.orderId, vm)
          /\ px' = CallRecord("claim_intent", caller, vm)
    /\ UNCHANGED ledger
    /\ ReleaseFrame

ReleaseInit ==
    /\ time = 0
    /\ EvmInit
    /\ suiBal = [a \in Accounts |-> IF a = User THEN 2 * MIN_PROFIT_MIST ELSE 0]
    /\ ethBal = [a \in Accounts |-> 0]
    /\ intents = <<>>
    /\ whMsgs = <<>>
    /\ signedVaas = {}
    /\ px = CallRecord("none", "none", NoVaa)
    /\ pxOut = <<>>
    /\ SolverIdle
    /\ PollIdle
    /\ HostIdle

ReleaseNext ==
    \/ ReleaseCreateOrder
    \/ ReleaseSettle
    \/ ReleaseCreateIntent
    \/ ReleaseClaim

ReleaseSpec == ReleaseInit /\ [][ReleaseNext]_vars

\* C30: locked collateral is released only to the solver identity in the
\* verified payload. A settleOrder that succeeds pays the order's collateral
\* to the decoded solverAddress and to nobody else, whoever submitted it (a
\* payload that names the vault itself moves nothing); a
\* claim_intent whose caller is not the solver address of the payload aborts
\* and moves nothing, and one that succeeds pays nobody but that solver.
C30_ReleasedOnlyToPayloadSolver ==
    /\ (px.call = "settleOrder" /\ lastErr = "ok")
          => /\ IF px.vm.solverAddress = Vault
                THEN usdcBal = px.usdc
                ELSE usdcBal[Vault] < px.usdc[Vault]
             /\ \A a \in Accounts \ {Vault} :
                   usdcBal[a] = px.usdc[a] + (IF a = px.vm.solverAddress
                                              THEN px.usdc[Vault] - usdcBal[Vault]
                                              ELSE 0)
    /\ px.call = "claim_intent"
          => /\ px.caller # px.vm.solverAddress
                   => (lastErr # "ok" /\ suiBal = px.sui /\ intents = px.intents)
             /\ \A a \in Accounts : suiBal[a] > px.sui[a] => a = px.vm.solverAddress
             /\ lastErr = "ok" => suiBal[px.vm.solverAddress] > px.sui[px.vm.solverAddress]

\* a settlement submitted by an account other than the payload's solver paid
\* that solver, and an intent is still locked
C30_Witness ==
    /\ px.call = "settleOrder"
    /\ lastErr = "ok"
    /\ px.caller # px.vm.solverAddress
    /\ usdcBal[px.vm.solverAddress] > px.usdc[px.vm.solverAddress]
    /\ usdcBal[px.caller] = px.usdc[px.caller]

\* the sum of inputAmount over the orders with an id below n that satisfy keep
RECURSIVE SumInputAmount(_, _)
SumInputAmount(n, keep) ==
    IF n = 0 THEN 0
    ELSE SumInputAmount(n - 1, keep) + (IF (n - 1) \in keep THEN orders[n - 1].inputAmount ELSE 0)

PendingOrders == {i \in 0..(nextOrderId - 1) : orders[i].status = "PENDING"}

\* orders settled by a VAA whose payload names the vault itself as the solver
SelfSettledOrders == {h[5] : h \in {g \in processedVaas : g[6] = Vault}}

C32_PaidOutAtMostOnce ==
    /\ [](\A vm \in VaaInputs :
            OrderAt(vm.orderId).status = "SETTLED"
                => (settleOrder(vm).err # "ok" /\ NothingChanged(settleOrder(vm))))
    /\ [][/\ \A i \in DOMAIN orders :
                orders[i].status = "SETTLED" => orders'[i] = orders[i]
          /\ \A i \in 1..Len(intents) :
                ~intents[i].live
                    => /\ intents'[i] = intents[i]
                       /\ (px'.call = "claim_intent" /\ px'.vm.orderId = i)
                             => (lastErr' # "ok" /\ suiBal' = suiBal)]_vars

\* a settled order was presented again with another valid attestation and a
\* consumed intent was claimed again; both calls were refused
C32_Witness ==
    /\ px.call = "claim_intent"
    /\ lastErr = "ObjectNotFound"
    /\ px.vm.valid
    /\ px.vm.orderId \in 1..Len(intents)
    /\ \E vm \in VaaInputs :
          /\ vm.valid
          /\ VaaHash(vm) \notin processedVaas
          /\ OrderAt(vm.orderId).status = "SETTLED"
          /\ settleOrder(vm).err = "OrderAlreadySettled"

\* C33: in the polling loop of the EVM -> Sui solver the block ranges of
\* successive successful polls are disjoint, increasing and leave no gap, so
\* that each OrderCreated event is handed to processOrder exactly once: a poll
\* reads the blocks lastBlock..currentBlock, which begin right after the blocks
\* of the poll before it, and hands over every event in them; the position
\* moves only past the blocks just read and only when all their events were
\* handed over; an event is handed over only if it never was before; and an
\* order created while the solver runs lands in a block no poll has read yet.
C33_RangesPartitionBlocks ==
    [][/\ (pc = "poll" /\ pc' = "logs")
             => /\ batch' = getLogs(lastBlock, currentBlock')
                /\ lastBlock <= currentBlock'
                /\ currentBlock < currentBlock'
                /\ currentBlock # 0 => lastBlock = currentBlock + 1
       /\ (starts > 0 /\ lastBlock' # lastBlock)
             => (batch = <<>> /\ pc = "logs" /\ lastBlock' = currentBlock + 1)
       /\ (starts > 0 /\ batch' # batch /\ pc = "logs")
             => (batch' = Tail(batch) /\ Head(batch) \notin delivered
                 /\ Head(batch) \in delivered')
       /\ (starts > 0 /\ nextOrderId' # nextOrderId)
             => orders'[nextOrderId].startTime
                   >= (IF currentBlock = 0 THEN lastBlock
                       ELSE IF pc = "poll" THEN lastBlock ELSE currentBlock + 1)]_vars

\* two polls have succeeded: an order of the first range was handed to
\* processOrder and the second poll has read the blocks right after that range
C33_Witness ==
    /\ pc = "logs"
    /\ currentBlock >= lastBlock
    /\ \E id \in delivered : orders[id].startTime < lastBlock

\* C34: the solver never submits a fulfillment payment for an order that is
\* already settled or claimed on the source ledger when it is picked up: every
\* intent the Sui -> EVM solver takes from a batch of creation events into its
\* pipeline, and every intent it pays fulfillOrder for, still holds its locked
\* coins on Sui.
C34_NoPaymentForClaimedOrder ==
    [][/\ (pc = "logs" /\ pc' = "solve") => intents[cur'.orderId].live
       /\ Len(whMsgs') = Len(whMsgs) + 1 => intents[whMsgs'[Len(whMsgs')].orderId].live]_vars

\* ------------------------------------------------- the payload codec

\* A u64 is kept as four 16-bit limbs, most significant first, so that every
\* value up to 2^64 - 1 is within reach.
U64Values ==
    {<<0, 0, 0, 0>>, <<0, 0, 0, 1>>, <<0, 0, 0, 255>>, <<0, 0, 0, 256>>, <<0, 0, 1, 0>>,
     <<0, 0, 65535, 65535>>, <<0, 1, 0, 0>>, <<1, 0, 0, 0>>, <<255, 65280, 255, 65280>>,
     <<4660, 22136, 37035, 52719>>, <<32768, 0, 0, 0>>, <<65535, 65535, 65535, 65535>>}

\* 32-byte order ids and 20-byte EVM addresses
OrderIdBytes ==
    {[i \in 1..32 |-> 0], [i \in 1..32 |-> IF i = 32 THEN 1 ELSE 0], [i \in 1..32 |-> i],
     [i \in 1..32 |-> 255]}
AddressBytes == {[i \in 1..20 |-> 0], [i \in 1..20 |-> 100 + i], [i \in 1..20 |-> 255]}

\* v >> 8 and (v << 8) | b on a u64; the bits shifted out are lost
u64_shr8(v) ==
    <<v[1] \div 256, (v[1] % 256) * 256 + v[2] \div 256, (v[2] % 256) * 256 + v[3] \div 256,
      (v[3] % 256) * 256 + v[4] \div 256>>

u64_shl8_or(v, b) ==
    <<(v[1] % 256) * 256 + v[2] \div 256, (v[2] % 256) * 256 + v[3] \div 256,
      (v[3] % 256) * 256 + v[4] \div 256, (v[4] % 256) * 256 + b>>

main_u64_to_bytes_be_noReverse(val) ==
    LET RECURSIVE push(_, _)
        push(v, i) == IF i = 8 THEN <<>> ELSE <<v[4] % 256>> \o push(u64_shr8(v), i + 1)
    IN  push(val, 0)

\* u64_to_bytes_be of main and of solver_engine: eight times the low byte is
\* pushed and the value shifted right, then the vector is reversed
main_u64_to_bytes_be(val) ==
    LET RECURSIVE push(_, _)
        push(v, i) == IF i = 8 THEN <<>> ELSE <<v[4] % 256>> \o push(u64_shr8(v), i + 1)
        bytes == push(val, 0)
    IN  [i \in 1..8 |-> bytes[9 - i]]

\* main::bytes_to_u64_be: val = (val << 8) | byte over the first eight bytes
bytes_to_u64_be(bytes) ==
    LET RECURSIVE fold(_, _)
        fold(val, i) == IF i = 8 THEN val ELSE fold(u64_shl8_or(val, bytes[i + 1]), i + 1)
    IN  fold(<<0, 0, 0, 0>>, 0)

\* the payload solve_and_prove builds: intent_id, 12 zero bytes and the
\* 20-byte address, 24 zero bytes and the amount in 8 bytes
solve_and_prove_payload(intent_id, solver_evm_address, amount_to_send) ==
    intent_id \o [k \in 1..12 |-> 0] \o solver_evm_address
              \o [j \in 1..24 |-> 0] \o main_u64_to_bytes_be(amount_to_send)

\* abi.decode(payload, (uint256, address, uint256)): three 32-byte words; the
\* decoder reverts on a short payload and on an address word with bits set
\* above its low 20 bytes. A uint256 is kept as its big-endian word.
abi_decode_payload(payload) ==
    IF Len(payload) < 96 \/ \E i \in 33..44 : payload[i] # 0
    THEN [ok |-> FALSE, orderId |-> <<>>, solverAddress |-> <<>>, amountPaidBySolver |-> <<>>]
    ELSE [ok |-> TRUE, orderId |-> SubSeq(payload, 1, 32),
          solverAddress |-> SubSeq(payload, 45, 64),
          amountPaidBySolver |-> SubSeq(payload, 65, 96)]

\* solve_and_prove builds the payload of its arguments
codec_encode ==
    /\ pxOut.stage = "none"
    /\ pxOut' = [stage |-> "published",
                 payload |-> solve_and_prove_payload(px.intent_id, px.solver_evm_address,
                                                     px.amount_to_send),
                 decoded |-> <<>>, amount_paid |-> <<>>]
    /\ UNCHANGED <<time, evmVars, px, suiVars, solverVars, delivered, poll, host>>

\* the settlement side decodes the payload: settleOrder with abi.decode,
\* claim_order with bytes_to_u64_be on bytes 88..95
codec_decode ==
    /\ pxOut.stage = "published"
    /\ pxOut' = [pxOut EXCEPT !.stage = "decoded",
                              !.decoded = abi_decode_payload(pxOut.payload),
                              !.amount_paid = bytes_to_u64_be(SubSeq(pxOut.payload, 89, 96))]
    /\ UNCHANGED <<time, evmVars, px, suiVars, solverVars, delivered, poll, host>>

CodecInit ==
    /\ time = 0
    /\ EvmInit
    /\ SuiIdle
    /\ SolverIdle
    /\ PollIdle
    /\ HostIdle
    /\ px \in [intent_id : OrderIdBytes, solver_evm_address : AddressBytes,
               amount_to_send : U64Values]
    /\ pxOut = [stage |-> "none", payload |-> <<>>, decoded |-> <<>>, amount_paid |-> <<>>]

CodecNext ==
    \/ codec_encode
    \/ codec_decode

CodecSpec == CodecInit /\ [][CodecNext]_vars

\* C35: the payload codec round-trips. For a 32-byte order id, a 20-byte
\* solver address and a u64 amount the payload of solve_and_prove has 96 bytes
\* (order id | 12 zero bytes + address | 24 zero bytes + the amount in 8 bytes,
\* big-endian) and decodes on the settlement side to the same order id, solver
\* and amount, and bytes_to_u64_be(u64_to_bytes_be(v)) = v.
C35_PayloadRoundTrips ==
    LET v == px.amount_to_send
        bigEndian == <<v[1] \div 256, v[1] % 256, v[2] \div 256, v[2] % 256,
                       v[3] \div 256, v[3] % 256, v[4] \div 256, v[4] % 256>>
    IN  /\ bytes_to_u64_be(main_u64_to_bytes_be(v)) = v
        /\ pxOut.stage # "none"
              => /\ Len(pxOut.payload) = 96
                 /\ pxOut.payload = px.intent_id \o [k \in 1..12 |-> 0] \o px.solver_evm_address
                                        \o [j \in 1..24 |-> 0] \o bigEndian
        /\ pxOut.stage = "decoded"
              => /\ pxOut.decoded.ok
                 /\ pxOut.decoded.orderId = px.intent_id
                 /\ pxOut.decoded.solverAddress = px.solver_evm_address
                 /\ pxOut.decoded.amountPaidBySolver = [j \in 1..24 |-> 0] \o bigEndian
                 /\ pxOut.amount_paid = v

\* a payload whose amount uses all eight bytes was built and decoded
C35_Witness ==
    /\ pxOut.stage = "decoded"
    /\ pxOut.decoded.ok
    /\ px.amount_to_send = <<4660, 22136, 37035, 52719>>
    /\ px.intent_id[32] = 32
    /\ pxOut.amount_paid = px.amount_to_send

\* ----------------------------- the polling loop with several orders in a batch

LoopOrders == 2     \* orders that were created in the block the solver starts at

\* the users have created LoopOrders profitable orders, decaying or flat
\* auctions, in block 0 and the solver is about to start
LoopInit ==
    /\ time = 0
    /\ nextOrderId = LoopOrders
    /\ orders \in [0..(LoopOrders - 1) ->
                     {[depositor |-> User, inputAmount |-> 2 * MIN_PROFIT_USDC_RAW,
                       startOutputAmount |-> a[1], minOutputAmount |-> a[2], startTime |-> 0,
                       duration |-> a[3], status |-> "PENDING"] : a \in ReleaseAuctions}]
    /\ processedVaas = {}
    /\ usdcBal = [a \in Accounts |-> IF a = Vault THEN LoopOrders * 2 * MIN_PROFIT_USDC_RAW ELSE 0]
    /\ lastErr = "ok"
    /\ PriceIdle
    /\ suiBal = [a \in Accounts |-> IF a = Solver THEN SolverFunds ELSE 0]
    /\ ethBal = [a \in Accounts |-> 0]
    /\ intents = <<>>
    /\ whMsgs = <<>>
    /\ signedVaas = {}
    /\ SolverIdle
    /\ PollIdle
    /\ HostIdle

LoopNext ==
    \/ VaultTick
    \/ GuardianSign
    \/ main_start
    \/ main_poll
    \/ main_pollError
    \/ main_endLogs
    \/ processOrder_price
    \/ processOrder_solve
    \/ fetchVAA_parse
    \/ fetchVAA_getVaa
    \/ fetchVAA_timeout
    \/ processOrder_settle
    \/ processOrder_settleRpcError

LoopSpec == LoopInit /\ [][LoopNext]_vars

\* C36: an error raised while one order is processed is confined to that
\* order. Whenever the processing of an order ends, by success or by a failed
\* fulfillment, a failed attestation or a reverted settlement, control is back
\* in the loop over the batch with the rest of the batch, the position of the
\* poll and the loop itself as they were, and a failure has been logged for
\* that order; the loop never stops, and the next order of a batch can always
\* be taken.
C36_ErrorConfinedToOrder ==
    /\ [][(InPipeline /\ ~InPipeline')
             => /\ pc' = "logs"
                /\ cur' = NoOrder
                /\ batch' = batch
                /\ loopVars' = loopVars
                /\ delivered' = delivered
                /\ orders'[cur.orderId].status # "SETTLED"
                      => [where |-> "order", orderId |-> cur.orderId] \in errLog']_vars
    /\ [](starts > 0 => pc # "off")
    /\ []((pc = "logs" /\ batch # <<>>) => ENABLED processOrder_price)

\* the first order of a batch failed after its payment, and the second order
\* of the batch was then taken, paid for and settled
C36_Witness ==
    /\ [where |-> "order", orderId |-> 0] \in errLog
    /\ MessagesFor(0) # {}
    /\ orders[0].status = "PENDING"
    /\ orders[1].status = "SETTLED"
    /\ \E tx \in settleTxs : tx.orderId = 1
    /\ pc = "logs"

\* ------------------------------------------ SolverBot.monitorAndSolve

MaxInvocations == 3     \* OrderCreated events the listener of SolverBot.start receives

\* host[i] is invocation i of monitorAndSolve: its interval timer, the ticks
\* that ran, the calls of executeSolve and whether one is being awaited
NoMonitor == [timer |-> "unset", ticks |-> 0, executeSolve |-> 0, awaiting |-> FALSE, log |-> {}]

BotFrame ==
    UNCHANGED <<time, evmVars, priceVars, suiVars, solverVars, delivered, poll>>

\* the listener calls monitorAndSolve(order), which sets the interval timer
bot_monitorAndSolve ==
    /\ \E i \in 1..MaxInvocations :
          /\ host[i].timer = "unset"
          /\ \A j \in 1..(i - 1) : host[j].timer # "unset"
          /\ host' = [host EXCEPT ![i].timer = "armed"]
    /\ BotFrame

bot_tick_clearsAfterAwait ==
    /\ \E i \in 1..MaxInvocations, thrown \in BOOLEAN :
          /\ host[i].timer = "armed"
          /\ host[i].ticks < 2
          /\ host' = [host EXCEPT
                        ![i].ticks = @ + 1,
                        ![i].timer = IF thrown THEN "cleared" ELSE @,
                        ![i].executeSolve = IF thrown THEN @ ELSE @ + 1,
                        ![i].awaiting = ~thrown,
                        ![i].log = IF thrown THEN @ \cup {"monitoring loop"} ELSE @]
    /\ BotFrame

\* a tick of the timer, up to its first await: calculateDutchPrice throws and
\* the catch block clears the timer, or the timer is cleared and executeSolve
\* is called. Nothing runs between the start of the callback and its await.
bot_tick ==
    /\ \E i \in 1..MaxInvocations, thrown \in BOOLEAN :
          /\ host[i].timer = "armed"
          /\ host' = [host EXCEPT
                        ![i].ticks = @ + 1,
                        ![i].timer = "cleared",
                        ![i].executeSolve = IF thrown THEN @ ELSE @ + 1,
                        ![i].awaiting = ~thrown,
                        ![i].log = IF thrown THEN @ \cup {"monitoring loop"} ELSE @]
    /\ BotFrame

\* the awaited executeSolve returns, or throws into the catch block of the
\* tick, which logs and clears the timer again
bot_executeSolve_ends ==
    /\ \E i \in 1..MaxInvocations, thrown \in BOOLEAN :
          /\ host[i].awaiting
          /\ host' = [host EXCEPT
                        ![i].awaiting = FALSE,
                        ![i].timer = IF thrown THEN "cleared" ELSE @,
                        ![i].log = IF thrown THEN @ \cup {"monitoring loop"} ELSE @]
    /\ BotFrame

BotInit ==
    /\ time = 0
    /\ EvmInit
    /\ PriceIdle
    /\ SuiIdle
    /\ SolverIdle
    /\ PollIdle
    /\ host = [i \in 1..MaxInvocations |-> NoMonitor]

BotNext ==
    \/ bot_monitorAndSolve
    \/ bot_tick
    \/ bot_executeSolve_ends

BotSpec == BotInit /\ [][BotNext]_vars

\* C37: each invocation of monitorAndSolve calls executeSolve at most once. A
\* timer that has ticked is cleared, before executeSolve is awaited and also
\* when the tick throws, so that no invocation has more than one tick.
C37_ExecuteSolveAtMostOnce ==
    \A i \in 1..MaxInvocations :
        /\ host[i].executeSolve <= 1
        /\ host[i].ticks <= 1
        /\ host[i].ticks = 1 => host[i].timer = "cleared"
        /\ host[i].awaiting => host[i].timer = "cleared"

\* one invocation awaits executeSolve with its timer cleared, another one's
\* tick threw, and a third one's executeSolve has ended
C37_Witness ==
    \E i, j, k \in 1..MaxInvocations :
        /\ host[i].awaiting /\ host[i].executeSolve = 1 /\ host[i].timer = "cleared"
        /\ host[j].ticks = 1 /\ host[j].executeSolve = 0 /\ host[j].timer = "cleared"
        /\ host[k].executeSolve = 1 /\ ~host[k].awaiting

\* ------------------------------------- the Move price function at full width

\* An unsigned integer is kept here as the sequence of its bytes, least
\* significant first; its length is the width of its type (8 bytes for u64, 16
\* for u128), so that the checks Move makes on every operation are the real
\* ones.
u64_bytes(v) ==
    <<v[4] % 256, v[4] \div 256, v[3] % 256, v[3] \div 256,
      v[2] % 256, v[2] \div 256, v[1] % 256, v[1] \div 256>>

ZeroBytes(n) == [k \in 1..n |-> 0]

\* a < b, for two integers of the same width: they differ at some byte, a's
\* is the smaller there, and the more significant bytes are equal
bytes_lt(a, b) ==
    \E j \in 1..Len(a) : a[j] < b[j] /\ \A m \in (j + 1)..Len(a) : a[m] = b[m]

bytes_le(a, b) == ~bytes_lt(b, a)

\* a - b when a >= b: byte i borrows exactly when the bytes below it of a are
\* less than those of b
BytesSub(a, b) ==
    [i \in 1..Len(a) |->
        LET borrow == IF \E j \in 1..(i - 1) :
                             a[j] < b[j] /\ \A m \in (j + 1)..(i - 1) : a[m] = b[m]
                      THEN 1 ELSE 0
        IN  (a[i] - b[i] - borrow + 256) % 256] \o <<>>

\* Move's checked subtraction: aborts when the result would be negative
checked_sub(a, b) == IF bytes_lt(a, b) THEN Abort ELSE Val(BytesSub(a, b))

\* the product of byte j of b with the byte of a that puts it on byte k of
\* a * b; nothing when j is beyond hi or a has no such byte
ByteProduct(a, b, k, j, hi) ==
    IF j <= hi /\ k - j + 1 >= 1 /\ k - j + 1 <= Len(a) THEN a[k - j + 1] * b[j] ELSE 0

\* the sum of the byte products that land on byte k, for the bytes lo..hi of
\* b, split in four
RECURSIVE ColumnSum(_, _, _, _, _)
ColumnSum(a, b, k, lo, hi) ==
    IF hi - lo < 4
    THEN (ByteProduct(a, b, k, lo, hi) + ByteProduct(a, b, k, lo + 1, hi))
         + (ByteProduct(a, b, k, lo + 2, hi) + ByteProduct(a, b, k, lo + 3, hi))
    ELSE LET q == (hi - lo + 1) \div 4
         IN  (ColumnSum(a, b, k, lo, lo + q - 1) + ColumnSum(a, b, k, lo + q, lo + 2 * q - 1))
             + (ColumnSum(a, b, k, lo + 2 * q, lo + 3 * q - 1)
                + ColumnSum(a, b, k, lo + 3 * q, hi))

\* one pass of carrying: every column keeps its low byte and takes the rest
\* of the column below
CarryPass(c) ==
    [k \in 1..Len(c) |-> (c[k] % 256) + (IF k > 1 THEN c[k - 1] \div 256 ELSE 0)] \o <<>>

\* a * b in Len(a) + Len(b) bytes. The column sums are below 2^21; after
\* three passes every column is at most 256, and the last carry into byte k
\* is one exactly when a column below it holds 256 and the columns between
\* hold 255
BytesMul(a, b) ==
    LET n == Len(a) + Len(b)
        c == [k \in 1..n |-> ColumnSum(a, b, k, 1, Len(b))] \o <<>>
        p == CarryPass(CarryPass(CarryPass(c)))
    IN  [k \in 1..n |->
            LET carry == IF \E j \in 1..(k - 1) :
                                p[j] = 256 /\ \A m \in (j + 1)..(k - 1) : p[m] = 255
                         THEN 1 ELSE 0
            IN  (p[k] + carry) % 256] \o <<>>

\* Move's checked multiplication in the width of its operands: aborts when
\* the product has a byte beyond that width
checked_mul(a, b) ==
    LET n == Len(a)
        p == BytesMul(a, b)
    IN  IF \E k \in (n + 1)..(2 * n) : p[k] # 0 THEN Abort ELSE Val(SubSeq(p, 1, n))

\* the largest byte q with q * b <= r, built two bits at a time from the top
\* (unit = 64, 16, 4, 1): the next two bits are the largest d in 0..3 with
\* (q + d * unit) * b <= r
RECURSIVE QuotientBits(_, _, _, _)
QuotientBits(r, b, q, unit) ==
    IF unit = 0 THEN q
    ELSE IF bytes_le(BytesMul(b, <<q + 2 * unit>>), r)
         THEN IF bytes_le(BytesMul(b, <<q + 3 * unit>>), r)
              THEN QuotientBits(r, b, q + 3 * unit, unit \div 4)
              ELSE QuotientBits(r, b, q + 2 * unit, unit \div 4)
         ELSE IF bytes_le(BytesMul(b, <<q + unit>>), r)
              THEN QuotientBits(r, b, q + unit, unit \div 4)
              ELSE QuotientBits(r, b, q, unit \div 4)

QuotientByte(r, b) == QuotientBits(r, b, 0, 64)

\* one step of long division: the next byte of the dividend is brought down
\* to the remainder rem < b, which gives a quotient byte and the remainder left
DivStep(byte, rem, b) ==
    LET r == <<byte>> \o rem
        q == QuotientByte(r, b)
    IN  [q |-> q, rem |-> SubSeq(BytesSub(r, BytesMul(b, <<q>>)), 1, Len(b))]

\* the quotient bytes of a / b from byte i of a down, most significant first
RECURSIVE BytesDivFrom(_, _, _, _)
BytesDivFrom(a, b, i, rem) ==
    IF i = 0 THEN <<>>
    ELSE LET s == DivStep(a[i], rem, b)
         IN  <<s.q>> \o BytesDivFrom(a, b, i - 1, s.rem)

\* Move's division: aborts on a zero divisor, otherwise the floor of a / b by
\* long division from the top byte down
checked_div(a, b) ==
    IF b = ZeroBytes(Len(b)) THEN Abort
    ELSE LET n == Len(a)
             q == BytesDivFrom(a, b, n, ZeroBytes(n))
         IN  Val([k \in 1..n |-> q[n + 1 - k]] \o <<>>)

\* (x as u128) and (x as u64); the narrowing cast aborts when the value does
\* not fit
as_u128(x) == x \o ZeroBytes(16 - Len(x))

as_u64(x) ==
    IF \E k \in 9..Len(x) : x[k] # 0 THEN Abort ELSE Val(SubSeq(x, 1, 8))

\* The same function with the product formed in u64, without the casts.
calculate_dutch_price_u64Product(start, min, start_time, duration, current_time) ==
    IF bytes_le(current_time, start_time) THEN Val(start)
    ELSE LET elapsed == checked_sub(current_time, start_time).val IN
         IF bytes_le(duration, elapsed) THEN Val(min)
         ELSE LET total_drop == checked_sub(start, min) IN
              IF ~total_drop.ok THEN Abort
              ELSE LET product == checked_mul(total_drop.val, elapsed) IN
                   IF ~product.ok THEN Abort
                   ELSE LET drop == checked_div(product.val, duration) IN
                        IF ~drop.ok THEN Abort
                        ELSE checked_sub(start, drop.val)

\* main::calculate_dutch_price; intent::calculate_required_amount_internal is
\* the same text with other parameter names.
calculate_dutch_price(start, min, start_time, duration, current_time) ==
    IF bytes_le(current_time, start_time) THEN Val(start)
    ELSE LET elapsed == checked_sub(current_time, start_time).val IN
         IF bytes_le(duration, elapsed) THEN Val(min)
         ELSE LET total_drop == checked_sub(start, min) IN
              IF ~total_drop.ok THEN Abort
              ELSE LET product == checked_mul(as_u128(total_drop.val), as_u128(elapsed)) IN
                   IF ~product.ok THEN Abort
                   ELSE LET drop == checked_div(product.val, as_u128(duration)) IN
                        IF ~drop.ok THEN Abort
                        ELSE LET drop64 == as_u64(drop.val) IN
                             IF ~drop64.ok THEN Abort
                             ELSE checked_sub(start, drop64.val)

\* the u64 arguments the function is called with
WideAmounts ==
    {<<0, 0, 0, 0>>, <<0, 0, 0, 1>>, <<0, 1, 0, 0>>, <<32768, 0, 0, 0>>,
     <<65535, 65535, 65535, 65535>>}
WideStartTimes == {<<0, 0, 0, 0>>, <<0, 0, 0, 1>>, <<32768, 0, 0, 0>>}
WideDurations ==
    {<<0, 0, 0, 0>>, <<0, 0, 0, 1>>, <<0, 0, 0, 3>>, <<32768, 0, 0, 0>>,
     <<65535, 65535, 65535, 65535>>}
WideTimes ==
    {<<0, 0, 0, 0>>, <<0, 0, 0, 2>>, <<0, 0, 0, 3>>, <<32768, 0, 0, 1>>,
     <<65535, 65535, 65535, 65534>>, <<65535, 65535, 65535, 65535>>}

wide_call ==
    /\ pxOut = <<>>
    /\ pxOut' = <<calculate_dutch_price(u64_bytes(px.start), u64_bytes(px.min),
                      u64_bytes(px.start_time), u64_bytes(px.duration),
                      u64_bytes(px.current_time))>>
    /\ UNCHANGED <<time, evmVars, px, suiVars, solverVars, delivered, poll, host>>

WideInit ==
    /\ px \in [start : WideAmounts, min : WideAmounts, start_time : WideStartTimes,
               duration : WideDurations, current_time : WideTimes]
    /\ pxOut = <<>>
    /\ time = 0
    /\ nextOrderId = 0
    /\ orders = [i \in 0..(MaxOrders - 1) |-> EmptyOrder]
    /\ processedVaas = {}
    /\ usdcBal = [a \in Accounts |-> 0]
    /\ lastErr = "ok"
    /\ SuiIdle
    /\ SolverIdle
    /\ PollIdle
    /\ HostIdle

WideNext == wide_call

WideSpec == WideInit /\ [][WideNext]_vars

\* C38: for all u64 inputs with min_amount <= start_amount and duration > 0
\* the Move price function never aborts (the product total_drop * elapsed is
\* computed in u128 and the quotient fits in u64) and its result lies in
\* [min_amount, start_amount].
C38_NeverAbortsAndBounded ==
    (pxOut # <<>> /\ bytes_le(u64_bytes(px.min), u64_bytes(px.start))
        /\ px.duration # <<0, 0, 0, 0>>) =>
        /\ pxOut[1].ok
        /\ Len(pxOut[1].val) = 8
        /\ bytes_le(u64_bytes(px.min), pxOut[1].val)
        /\ bytes_le(pxOut[1].val, u64_bytes(px.start))

\* a call inside the decay window whose product total_drop * elapsed,
\* (2^64 - 2) * (2^64 - 3), does not fit in 64 bits, and whose result, 3, is
\* strictly between the two amounts
C38_Witness ==
    /\ pxOut # <<>>
    /\ px.start = <<65535, 65535, 65535, 65535>>
    /\ px.min = <<0, 0, 0, 1>>
    /\ px.start_time = <<0, 0, 0, 1>>
    /\ px.duration = <<65535, 65535, 65535, 65535>>
    /\ px.current_time = <<65535, 65535, 65535, 65534>>
    /\ pxOut[1] = Val(<<3, 0, 0, 0, 0, 0, 0, 0>>)
    /\ bytes_lt(u64_bytes(px.min), pxOut[1].val)
    /\ bytes_lt(pxOut[1].val, u64_bytes(px.start))

\* ------------------------------------------- progress of the pipeline

\* The solver is a running Node.js process: every call processOrder awaits
\* returns or throws, so each stage of the order in hand is left in finite
\* time. The Sui transaction is executed or fails; parseTransaction answers;
\* getVaa returns the VAA or gives up at timeoutMs; writeContract sends the
\* transaction or throws. Nothing is assumed of the users, the clock or the
\* guardians.
LiveSpec ==
    /\ Init
    /\ [][Next]_vars
    /\ WF_vars(processOrder_solve)
    /\ WF_vars(fetchVAA_parse)
    /\ WF_vars(fetchVAA_getVaa \/ fetchVAA_timeout)
    /\ WF_vars(processOrder_settle \/ processOrder_settleRpcError)

SettlementSubmitted(orderId) == \E tx \in settleTxs : tx.orderId = orderId

ErrorLogged(orderId) == [where |-> "order", orderId |-> orderId] \in errLog

\* C39: an order that passed the profitability check is eventually settled
\* by the solver (settleOrder is sent for it) unless one of the four things
\* the pipeline depends on fails: the order leaves the pipeline without a
\* settlement only by a step in which the fulfillment transaction fails, the
\* last parse attempt finds no message, getVaa times out without a signed
\* VAA, or writeContract throws; and one of the two always happens.
C39_EventuallySubmitsSettlement ==
    /\ \A orderId \in 0..(MaxOrders - 1) :
          (pc = "solve" /\ cur.orderId = orderId)
              ~> (SettlementSubmitted(orderId) \/ ErrorLogged(orderId))
    /\ [][(InPipeline /\ ~InPipeline' /\ ~(\E tx \in settleTxs' : tx.orderId = cur.orderId))
            => /\ [where |-> "order", orderId |-> cur.orderId] \in errLog'
               /\ \/ pc = "solve" /\ whMsgs' = whMsgs
                  \/ pc = "parse" /\ cur.attempts = PARSE_ATTEMPTS
                  \/ pc = "getVaa" /\ cur.seq \notin signedVaas /\ cur.orderId \in timedOut'
                  \/ pc = "settle" /\ settleTxs' = settleTxs]_vars

\* an accepted order went through the three stages and its settlement was
\* sent, with no error logged on the way
C39_Witness ==
    /\ \E orderId \in delivered :
          /\ SettlementSubmitted(orderId)
          /\ orders[orderId].status = "SETTLED"
          /\ ~ErrorLogged(orderId)
    /\ pc = "logs"
    /\ fetchedVaas # {}

============================================================================
